---- MODULE Spec2Model ----
(***************************************************************************)
(* Authentication / session core of the contacts backend:                  *)
(* registration, e-mail confirmation, login, refresh-token rotation,       *)
(* logout, current-user resolution, the role gates, the Redis blacklist    *)
(* and profile cache, and the hourly refresh-token reaper.                 *)
(*                                                                         *)
(* Time is counted in ticks, TicksPerSec ticks to a second, so that the    *)
(* whole-second arithmetic of the code (JWT exp claims, Redis TTLs) is     *)
(* distinguishable from its sub-second clock reads.                        *)
(* Every request handler is split at its awaits on the credential store    *)
(* or the cache where another request can interleave (register, refresh,   *)
(* logout); Procs are the request slots that can be in flight together.    *)
(***************************************************************************)
EXTENDS Integers, Sequences, FiniteSets, TLC

\* ---------------------------------------------------------------- bounds
MaxTime == 3
MaxSecrets == 3
MaxUsers == 2
MaxMails == 1
MaxLate == 4
MaxSessions == 1
MaxContacts == 2
MaxHits == 3

\* ------------------------------------------------- configuration (scaled)
TicksPerSec == 2
AccessTTLSec == 2
RefreshTTL == 3
CacheTTLSec == 1
EmailTTLSec == 4
ReaperCutoff == 1
RateLimit == 2
RateWindow == 2

Procs == {1, 2}
Usernames == {"alice", "m@x"}
Emails == {"a@x", "m@x"}
Passwords == {"pw1", "pw2"}
Salts == {"s1"}

Addrs == {"ip1", "ip2"}
NoWindow == [count |-> 0, until |-> 0]

Null == "null"
NoTime == -1
NoSecret == -1
UnknownSecret == 0

\* ------------------------------------------------------------- variables
VARIABLES
    now,        \* wall clock, in ticks
    users,      \* table users: sequence of rows, id = position
    rows,       \* table refresh_tokens: set of rows
    blacklist,  \* Redis keys black-list:<token>, each with its expiry
    ucache,     \* Redis keys user:<username>, each with its expiry
    issued,     \* signed JWTs that have left the server
    nextSecret, \* source of fresh refresh secrets (secrets.token_urlsafe)
    pc,         \* per request slot: the await the handler is suspended at
    loc,        \* per request slot: the handler's local variables
    ev,         \* what the last step answered (NoEv when it answered nothing)
    refreshed,  \* history: <<presented secret, returned secret>> of each completed refresh
    loggedOut,  \* history: <<access token, refresh secret>> of each completed logout
    contacts,   \* table contacts: set of rows
    nextContact, \* the sequence behind contacts.id
    limiter,    \* rate-limit storage: per client address, hit count and window end
    served,     \* history: per client address and instant, the /users/me requests let through
    stopped     \* history: <<presented secret, new secret>> of each refresh that stopped half way

contactVars == <<contacts, nextContact>>
limitVars == <<limiter, served>>

vars == <<now, users, rows, blacklist, ucache, issued, nextSecret, pc, loc, ev,
          refreshed, loggedOut, contactVars, limitVars, stopped>>

\* ------------------------------------------------------------ JWT codec
NoTok == [sub |-> "", exp |-> NoTime, iat |-> NoTime, sig |-> "none"]

\* jwt.encode writes a datetime claim as whole seconds since the epoch.
ToEpochSec(t) == t \div TicksPerSec

JwtEncode(sub, exp, iat) == [sub |-> sub, exp |-> exp, iat |-> iat, sig |-> "hs"]

JwtDecodes_Inclusive(tok, t) == tok.sig = "hs" /\ t <= tok.exp * TicksPerSec

\* jwt.decode: signature first, then exp against the clock.
JwtDecodes(tok, t) == tok.sig = "hs" /\ t < tok.exp * TicksPerSec

\* A token with the claims of tok that was not signed with SECRET_KEY.
Forge(tok) == [tok EXCEPT !.sig = "forged"]

CreateAccessToken_WrongSub(username) ==
    JwtEncode(CHOOSE u \in Usernames : u # username,
              ToEpochSec(now) + AccessTTLSec, NoTime)

CreateAccessToken(username) ==
    JwtEncode(username, ToEpochSec(now) + AccessTTLSec, NoTime)

create_email_token(email) ==
    JwtEncode(email, ToEpochSec(now) + EmailTTLSec, ToEpochSec(now))

\* ------------------------------------------------------- password hashing
\* (a hash that is the password itself)
HashPassword_Plaintext(password, salt) ==
    [salt |-> "", digest |-> <<"", password>>]

\* bcrypt.hashpw: the digest is a function of salt and password; the hash
\* string carries the salt in clear.
HashPassword(password, salt) == [salt |-> salt, digest |-> <<salt, password>>]

\* bcrypt.checkpw re-hashes the candidate with the salt of the stored hash.
VerifyPassword(plain, hashed) == HashPassword(plain, hashed.salt) = hashed

\* ------------------------------------------------------ refresh secrets
HashOffset == 100

HashToken_Identity(secret) == secret

\* hashlib.sha256(token).hexdigest(): injective on the secrets in use and
\* never equal to its argument.
HashToken(secret) == secret + HashOffset

\* ---------------------------------------------------------- user table
UserIds == 1..Len(users)

get_by_username(username) == {i \in UserIds : users[i].username = username}

get_user_by_email_WrongColumn(email) == {i \in UserIds : users[i].username = email}

get_user_by_email(email) == {i \in UserIds : users[i].email = email}

get_by_id(id) == {i \in UserIds : i = id}

UniqueViolation_None(username, email) == FALSE

\* unique=True on users.username and users.email
UniqueViolation(username, email) ==
    get_by_username(username) # {} \/ get_user_by_email(email) # {}

NewUser_Confirmed(username, email, hashed, avatar) ==
    [id |-> Len(users) + 1, username |-> username, email |-> email,
     hash_password |-> hashed, role |-> "user", avatar |-> avatar,
     confirmed |-> TRUE]

NewUser(username, email, hashed, avatar) ==
    [id |-> Len(users) + 1, username |-> username, email |-> email,
     hash_password |-> hashed, role |-> "user", avatar |-> avatar,
     confirmed |-> FALSE]

\* ------------------------------------------------- refresh_tokens table
GetActiveToken_IgnoresRevoked(token_hash, current_time) ==
    {r \in rows : /\ r.token_hash = token_hash
                  /\ r.expired_at > current_time}

GetActiveToken_Inclusive(token_hash, current_time) ==
    {r \in rows : /\ r.token_hash = token_hash
                  /\ r.expired_at >= current_time
                  /\ r.revoked_at = NoTime}

GetActiveToken(token_hash, current_time) ==
    {r \in rows : /\ r.token_hash = token_hash
                  /\ r.expired_at > current_time
                  /\ r.revoked_at = NoTime}

\* (a save that also renews the expiry of the user's other rows)
SaveToken_Renews(user_id, token_hash, expired_at) ==
    {IF r.user_id = user_id THEN [r EXCEPT !.expired_at = expired_at] ELSE r :
        r \in rows}
    \cup {[user_id |-> user_id, token_hash |-> token_hash,
           expired_at |-> expired_at, revoked_at |-> NoTime]}

\* (a save that ends the user's other sessions)
SaveToken_SingleSession(user_id, token_hash, expired_at) ==
    {IF r.user_id = user_id /\ r.revoked_at = NoTime
     THEN [r EXCEPT !.revoked_at = now] ELSE r : r \in rows}
    \cup {[user_id |-> user_id, token_hash |-> token_hash,
           expired_at |-> expired_at, revoked_at |-> NoTime]}

SaveToken(user_id, token_hash, expired_at) ==
    rows \cup {[user_id |-> user_id, token_hash |-> token_hash,
                expired_at |-> expired_at, revoked_at |-> NoTime]}

RevokeToken_Forgets(active) == rows

RevokeToken(active) ==
    {IF r \in active THEN [r EXCEPT !.revoked_at = now] ELSE r : r \in rows}

ValidateRefreshToken_AnyRow(secret) ==
    {r.user_id : r \in {a \in rows : a.token_hash = HashToken(secret)}}

\* (the user looked up by the wrong key: always the first user)
ValidateRefreshToken_WrongOwner(secret) ==
    {CHOOSE i \in UserIds : \A j \in UserIds : i <= j :
        a \in GetActiveToken(HashToken(secret), now)}

\* AuthService.validate_refresh_token: the owning user's id, or {} for 401.
ValidateRefreshToken(secret) ==
    {r.user_id : r \in {a \in GetActiveToken(HashToken(secret), now) :
                            get_by_id(a.user_id) # {}}}

RevokeRefreshToken_Overwrites(secret) ==
    RevokeToken({r \in rows : r.token_hash = HashToken(secret)})

\* AuthService.revoke_refresh_token: the table afterwards.
RevokeRefreshToken(secret) == RevokeToken(GetActiveToken(HashToken(secret), now))

\* (only the newest access token of a user passes)
IsTokenRevoked_Superseded(bl, tok) ==
    \/ \E e \in bl : e.token = tok
    \/ \E t \in issued : t.iat = NoTime /\ t.sub = tok.sub /\ t.exp > tok.exp

\* ------------------------------------------------------------- cache
IsTokenRevoked_Never(bl, tok) == FALSE

\* CacheService.is_token_revoked on the key space bl: EXISTS black-list:<token>.
IsTokenRevoked(bl, tok) == \E e \in bl : e.token = tok /\ now < e.until

\* CacheService.revoke_token: the TTL handed to SETEX, in whole seconds.
BlacklistTTL(tok) == (tok.exp * TicksPerSec - now) \div TicksPerSec

Blacklisted(tok) ==
    {e \in blacklist : e.token # tok}
        \cup {[token |-> tok, until |-> now + BlacklistTTL(tok) * TicksPerSec]}

\* UserResponse: the fields of a user that go into the cache and come back.
Profile(u) == [id |-> u.id, username |-> u.username, email |-> u.email,
               avatar |-> u.avatar, role |-> u.role]

\* CacheService.get_cached_user on the key space cache: GET user:<username>.
GetCachedUser(cache, username) ==
    {e.profile : e \in {c \in cache : c.username = username /\ now < c.until}}

CacheUser(u) ==
    {c \in ucache : c.username # u.username}
        \cup {[username |-> u.username, profile |-> Profile(u),
               until |-> now + CacheTTLSec * TicksPerSec]}

\* ------------------------------------------------------------- events
NoEv == [op |-> "none", status |-> 0, detail |-> "", uname |-> "",
         email |-> "", secret |-> NoSecret, access |-> NoTok,
         newRefresh |-> NoSecret, pre |-> "", late |-> FALSE, bypass |-> 0,
         hit |-> FALSE, listed |-> FALSE, role |-> "", avatar |-> "",
         uid |-> 0, cid |-> 0, found |-> <<>>, addr |-> "", pw |-> ""]

NoLoc == [op |-> "none", uname |-> "", email |-> "", password |-> "",
          secret |-> NoSecret, access |-> NoTok, newRefresh |-> NoSecret,
          uid |-> 0, pre |-> "", late |-> FALSE, cid |-> 0, url |-> "",
          user |-> [id |-> 0, username |-> "", email |-> "", avatar |-> "",
                    role |-> ""],
          body |-> [first_name |-> <<>>, email |-> <<>>],
          snap |-> [id |-> 0, user_id |-> 0, first_name |-> <<>>,
                    email |-> <<>>]]

Rotated == {p[1] : p \in refreshed}
LoggedOutAccess == {p[1] : p \in loggedOut}
LoggedOutRefresh == {p[2] : p \in loggedOut}

InFlight(states) == Cardinality({p \in Procs : pc[p] \in states})

\* ------------------------------------------------------------- Init
Init ==
    /\ now = 0
    /\ users = <<>>
    /\ rows = {}
    /\ blacklist = {}
    /\ ucache = {}
    /\ issued = {}
    /\ nextSecret = 1
    /\ pc = [p \in Procs |-> "idle"]
    /\ loc = [p \in Procs |-> NoLoc]
    /\ ev = NoEv
    /\ refreshed = {}
    /\ loggedOut = {}
    /\ contacts = {}
    /\ nextContact = 1
    /\ limiter = [a \in Addrs |-> NoWindow]
    /\ served = [a \in Addrs |-> [t \in 0..MaxLate |-> 0]]
    /\ stopped = {}

\* The clock advances; Redis drops the keys whose TTL has run out.
Tick ==
    /\ now < MaxTime
    /\ now' = now + 1
    /\ blacklist' = {e \in blacklist : now + 1 < e.until}
    /\ ucache' = {c \in ucache : now + 1 < c.until}
    /\ ev' = NoEv
    /\ UNCHANGED <<users, rows, issued, nextSecret, pc, loc, refreshed, loggedOut,
                   contactVars, limitVars, stopped>>

\* The clock past MaxTime, for the specifications that follow an access
\* token to its expiry.
LateTick ==
    /\ MaxTime <= now /\ now < MaxLate
    /\ now' = now + 1
    /\ blacklist' = {e \in blacklist : now + 1 < e.until}
    /\ ucache' = {c \in ucache : now + 1 < c.until}
    /\ ev' = NoEv
    /\ UNCHANGED <<users, rows, issued, nextSecret, pc, loc, refreshed, loggedOut,
                   contactVars, limitVars, stopped>>

\* ------------------------------------------ POST /auth/register
\* What the user table holds about a registration when the request arrives.
RegisterPre(username, email) ==
    IF \E i \in UserIds : users[i].username = username THEN "uname_taken"
    ELSE IF \E i \in UserIds : users[i].email = email THEN "email_taken"
    ELSE "free"

\* register_user, first await: the username lookup.
RegCheckUsername(p, username, email, password) ==
    /\ pc[p] = "idle"
    /\ \/ RegisterPre(username, email) # "free"
       \/ Len(users) + InFlight({"reg_email", "reg_create"}) < MaxUsers
    /\ LET l == [NoLoc EXCEPT !.op = "register", !.uname = username,
                              !.email = email, !.password = password,
                              !.pre = RegisterPre(username, email)]
       IN IF get_by_username(username) # {}
          THEN /\ ev' = [NoEv EXCEPT !.op = "register", !.status = 409,
                                     !.detail = "UsernameTaken",
                                     !.uname = username, !.email = email,
                                     !.pre = l.pre, !.bypass = 409]
               /\ UNCHANGED <<pc, loc>>
          ELSE /\ ev' = NoEv
               /\ pc' = [pc EXCEPT ![p] = "reg_email"]
               /\ loc' = [loc EXCEPT ![p] = l]
    /\ UNCHANGED <<now, users, rows, blacklist, ucache, issued, nextSecret,
                   refreshed, loggedOut, contactVars, limitVars, stopped>>

\* register_user, second await: the e-mail lookup.
RegCheckEmail(p) ==
    /\ pc[p] = "reg_email"
    /\ IF get_user_by_email(loc[p].email) # {}
       THEN /\ ev' = [NoEv EXCEPT !.op = "register", !.status = 409,
                                  !.detail = "EmailTaken",
                                  !.uname = loc[p].uname,
                                  !.email = loc[p].email,
                                  !.pre = loc[p].pre, !.bypass = 409]
            /\ pc' = [pc EXCEPT ![p] = "idle"]
            /\ loc' = [loc EXCEPT ![p] = NoLoc]
       ELSE /\ ev' = NoEv
            /\ pc' = [pc EXCEPT ![p] = "reg_create"]
            /\ UNCHANGED loc
    /\ UNCHANGED <<now, users, rows, blacklist, ucache, issued, nextSecret,
                   refreshed, loggedOut, contactVars, limitVars, stopped>>

\* register_user, third await: Gravatar, bcrypt, INSERT and commit.
RegCreate(p, salt, gravatar) ==
    /\ pc[p] = "reg_create"
    /\ IF UniqueViolation(loc[p].uname, loc[p].email)
       THEN /\ ev' = [NoEv EXCEPT !.op = "register", !.status = 500,
                                  !.detail = "IntegrityError",
                                  !.uname = loc[p].uname,
                                  !.email = loc[p].email,
                                  !.pre = loc[p].pre, !.bypass = 500]
            /\ UNCHANGED users
       ELSE /\ users' = Append(users,
                   NewUser(loc[p].uname, loc[p].email,
                           HashPassword(loc[p].password, salt), gravatar))
            /\ ev' = [NoEv EXCEPT !.op = "register", !.status = 201,
                                  !.uname = loc[p].uname,
                                  !.email = loc[p].email,
                                  !.avatar = gravatar,
                                  !.pw = loc[p].password,
                                  !.pre = loc[p].pre, !.bypass = 201]
    /\ pc' = [pc EXCEPT ![p] = "idle"]
    /\ loc' = [loc EXCEPT ![p] = NoLoc]
    /\ UNCHANGED <<now, rows, blacklist, ucache, issued, nextSecret,
                   refreshed, loggedOut, contactVars, limitVars, stopped>>

\* ------------------------------------------ POST /users/request_email
\* send_email mints the confirmation token and mails it to the address.
RequestEmail(email) ==
    /\ LET found == get_user_by_email(email)
       IN IF found = {}
          THEN /\ ev' = [NoEv EXCEPT !.op = "request_email", !.status = 500,
                                     !.email = email, !.bypass = 500]
               /\ UNCHANGED issued
          ELSE LET u == users[CHOOSE i \in found : TRUE]
               IN IF u.confirmed
                  THEN /\ ev' = [NoEv EXCEPT !.op = "request_email",
                                             !.status = 200,
                                             !.detail = "AlreadyConfirmed",
                                             !.email = email, !.bypass = 200]
                       /\ UNCHANGED issued
                  ELSE /\ issued' = issued \cup {create_email_token(u.email)}
                       /\ ev' = [NoEv EXCEPT !.op = "request_email",
                                             !.status = 200,
                                             !.detail = "CheckEmail",
                                             !.email = email,
                                             !.access = create_email_token(u.email),
                                             !.bypass = 200]
    /\ UNCHANGED <<now, users, rows, blacklist, ucache, nextSecret, pc, loc,
                   refreshed, loggedOut, contactVars, limitVars, stopped>>

\* ------------------------------------ GET /users/confirmed_email/{token}
\* (a confirmation that flips the flag instead of setting it)
ConfirmedEmail_Toggles(tok) ==
    /\ JwtDecodes(tok, now) /\ get_user_by_email(tok.sub) # {}
    /\ LET i == CHOOSE j \in get_user_by_email(tok.sub) : TRUE
       IN /\ users' = [users EXCEPT ![i].confirmed = ~@]
          /\ ev' = [NoEv EXCEPT !.op = "confirm", !.status = 200,
                                !.detail = "Confirmed",
                                !.uname = users[i].username,
                                !.access = tok, !.bypass = 200]
    /\ UNCHANGED <<now, rows, blacklist, ucache, issued, nextSecret, pc, loc,
                   refreshed, loggedOut, contactVars, limitVars, stopped>>

ConfirmedEmail(tok) ==
    /\ IF ~JwtDecodes(tok, now)
       THEN /\ ev' = [NoEv EXCEPT !.op = "confirm", !.status = 422,
                                  !.detail = "InvalidEmailToken",
                                  !.access = tok, !.bypass = 422]
            /\ UNCHANGED users
       ELSE LET found == get_user_by_email(tok.sub)
            IN IF found = {}
               THEN /\ ev' = [NoEv EXCEPT !.op = "confirm", !.status = 400,
                                          !.detail = "VerificationError",
                                          !.access = tok, !.bypass = 400]
                    /\ UNCHANGED users
               ELSE LET i == CHOOSE j \in found : TRUE
                    IN IF users[i].confirmed
                       THEN /\ ev' = [NoEv EXCEPT !.op = "confirm",
                                                  !.status = 200,
                                                  !.detail = "AlreadyConfirmed",
                                                  !.uname = users[i].username,
                                                  !.access = tok,
                                                  !.bypass = 200]
                            /\ UNCHANGED users
                       ELSE /\ users' = [users EXCEPT ![i].confirmed = TRUE]
                            /\ ev' = [NoEv EXCEPT !.op = "confirm",
                                                  !.status = 200,
                                                  !.detail = "Confirmed",
                                                  !.uname = users[i].username,
                                                  !.access = tok,
                                                  !.bypass = 200]
    /\ UNCHANGED <<now, rows, blacklist, ucache, issued, nextSecret, pc, loc,
                   refreshed, loggedOut, contactVars, limitVars, stopped>>

\* ------------------------------------------------- POST /auth/login
\* What the credential store alone holds about a login attempt.
LoginPre(username, password) ==
    IF ~\E i \in UserIds : users[i].username = username THEN "absent"
    ELSE LET u == users[CHOOSE i \in UserIds : users[i].username = username]
         IN IF ~u.confirmed THEN "unconfirmed"
            ELSE IF u.hash_password.digest # <<u.hash_password.salt, password>>
                 THEN "badpw"
                 ELSE "ok"

AuthenticateWith_CacheOnly(cache, username, password) ==
    IF GetCachedUser(cache, username) # {}
    THEN [status |-> 200, detail |-> "cached",
          profile |-> GetCachedUser(cache, username)]
    ELSE [status |-> 401, detail |-> "BadCredentials", profile |-> {}]

AuthenticateWith_VerifiesCached(cache, username, password) ==
    LET cached == GetCachedUser(cache, username)
        found == get_by_username(username)
    IN IF found = {}
       THEN [status |-> 401, detail |-> "BadCredentials", profile |-> {}]
       ELSE LET u == users[CHOOSE i \in found : TRUE]
            IN IF ~u.confirmed
               THEN [status |-> 401, detail |-> "EmailNotConfirmed", profile |-> {}]
               ELSE IF ~VerifyPassword(password, u.hash_password)
               THEN [status |-> 401, detail |-> "BadCredentials", profile |-> {}]
               ELSE IF cached # {}
               THEN [status |-> 200, detail |-> "cached", profile |-> cached]
               ELSE [status |-> 200, detail |-> "store", profile |-> {Profile(u)}]

\* AuthService.authenticate run against the profile cache `cache`.
AuthenticateWith(cache, username, password) ==
    LET cached == GetCachedUser(cache, username)
        found == get_by_username(username)
    IN IF cached # {}
       THEN [status |-> 200, detail |-> "cached", profile |-> cached]
       ELSE IF found = {}
       THEN [status |-> 401, detail |-> "BadCredentials", profile |-> {}]
       ELSE LET u == users[CHOOSE i \in found : TRUE]
            IN IF ~u.confirmed
               THEN [status |-> 401, detail |-> "EmailNotConfirmed", profile |-> {}]
               ELSE IF ~VerifyPassword(password, u.hash_password)
               THEN [status |-> 401, detail |-> "BadCredentials", profile |-> {}]
               ELSE [status |-> 200, detail |-> "store", profile |-> {Profile(u)}]

Authenticate(username, password) == AuthenticateWith(ucache, username, password)

Login(username, password) ==
    LET auth == Authenticate(username, password)
        pre == LoginPre(username, password)
        byp == AuthenticateWith({}, username, password).status
        hit == \E c \in ucache : c.username = username
    IN IF auth.status # 200
       THEN /\ ev' = [NoEv EXCEPT !.op = "login", !.status = auth.status,
                                  !.detail = auth.detail,
                                  !.uname = username, !.pre = pre,
                                  !.bypass = byp, !.hit = hit]
            /\ UNCHANGED <<now, users, rows, blacklist, ucache, issued,
                           nextSecret, pc, loc, refreshed, loggedOut,
                           contactVars, limitVars, stopped>>
       ELSE LET user == CHOOSE u \in auth.profile : TRUE
                access == CreateAccessToken(user.username)
            IN /\ nextSecret + InFlight({"r_create"}) <= MaxSecrets
               /\ ucache' = IF auth.detail = "store" THEN CacheUser(user)
                            ELSE ucache
               /\ rows' = SaveToken(user.id, HashToken(nextSecret),
                                    now + RefreshTTL)
               /\ nextSecret' = nextSecret + 1
               /\ issued' = issued \cup {access}
               /\ ev' = [NoEv EXCEPT !.op = "login", !.status = 200,
                                     !.detail = auth.detail,
                                     !.uname = username, !.access = access,
                                     !.newRefresh = nextSecret, !.pre = pre,
                                     !.bypass = byp, !.hit = hit]
               /\ UNCHANGED <<now, users, blacklist, pc, loc, refreshed,
                              loggedOut, contactVars, limitVars, stopped>>

\* --------------------------------------------------- GET /users/me
\* AuthService.get_current_user run against blacklist `bl` and profile
\* cache `cache`.
GetCurrentUserWith(bl, cache, tok) ==
    LET cached == GetCachedUser(cache, tok.sub)
        found == get_by_username(tok.sub)
    IN IF IsTokenRevoked(bl, tok)
       THEN [status |-> 401, detail |-> "TokenRevoked", profile |-> {}]
       ELSE IF ~JwtDecodes(tok, now)
       THEN [status |-> 401, detail |-> "InvalidToken", profile |-> {}]
       ELSE IF cached # {}
       THEN [status |-> 200, detail |-> "cached", profile |-> cached]
       ELSE IF found = {}
       THEN [status |-> 401, detail |-> "CouldNotValidate", profile |-> {}]
       ELSE [status |-> 200, detail |-> "store",
             profile |-> {Profile(users[CHOOSE i \in found : TRUE])}]

GetCurrentUser(tok) == GetCurrentUserWith(blacklist, ucache, tok)

\* What get_current_user leaves in the profile cache.
CacheAfter(res) ==
    IF res.detail = "store" THEN CacheUser(CHOOSE u \in res.profile : TRUE)
    ELSE ucache

\* What the body of `me` answers.
MeAnswer(tok, res) ==
    [NoEv EXCEPT !.op = "me", !.status = res.status,
                 !.detail = res.detail,
                 !.uname = IF res.profile = {} THEN ""
                           ELSE (CHOOSE u \in res.profile : TRUE).username,
                 !.access = tok,
                 !.late = tok \in LoggedOutAccess,
                 !.bypass = GetCurrentUserWith({}, {}, tok).status,
                 !.hit = \E c \in ucache : c.username = tok.sub,
                 !.listed = \E e \in blacklist : e.token = tok]

\* The route for a client address whose rate-limit window has room.
Me(tok) ==
    LET res == GetCurrentUser(tok)
    IN /\ ev' = MeAnswer(tok, res)
       /\ ucache' = IF res.detail = "store"
                    THEN CacheUser(CHOOSE u \in res.profile : TRUE)
                    ELSE ucache
       /\ UNCHANGED <<now, users, rows, blacklist, issued, nextSecret, pc,
                      loc, refreshed, loggedOut,
                      contactVars, limitVars, stopped>>

\* ------------------------------------ GET /users/moderator, /users/admin
Roles == {"user", "moderator", "admin"}

\* No route writes users.role: an operator sets it in the table.
GrantRole(i, role) ==
    /\ i \in UserIds /\ users[i].role # role
    /\ users' = [users EXCEPT ![i].role = role]
    /\ ev' = NoEv
    /\ UNCHANGED <<now, rows, blacklist, ucache, issued, nextSecret, pc, loc,
                   refreshed, loggedOut, contactVars, limitVars, stopped>>

get_current_moderator_user_ModeratorOnly(current_user) ==
    current_user.role = "moderator"

\* The gates, on the user that get_current_user resolved: TRUE admits,
\* FALSE raises 403.
get_current_moderator_user(current_user) ==
    ~(current_user.role \notin {"moderator", "admin"})

get_current_admin_user(current_user) == ~(current_user.role # "admin")

\* A route behind a gate: get_current_user, then the gate, then the body.
GuardedRoute(op, tok, res, admitted) ==
    /\ ev' = [NoEv EXCEPT
                !.op = op, !.access = tok,
                !.status = IF res.status # 200 THEN res.status
                           ELSE IF admitted THEN 200 ELSE 403,
                !.detail = IF res.status # 200 THEN res.detail
                           ELSE IF admitted THEN "Welcome"
                           ELSE "InsufficientRole",
                !.uname = IF res.profile = {} THEN ""
                          ELSE (CHOOSE u \in res.profile : TRUE).username,
                !.role = IF res.profile = {} THEN ""
                         ELSE (CHOOSE u \in res.profile : TRUE).role,
                !.bypass = GetCurrentUserWith({}, {}, tok).status,
                !.hit = \E c \in ucache : c.username = tok.sub,
                !.listed = \E e \in blacklist : e.token = tok]
    /\ ucache' = IF res.detail = "store"
                 THEN CacheUser(CHOOSE u \in res.profile : TRUE)
                 ELSE ucache
    /\ UNCHANGED <<now, users, rows, blacklist, issued, nextSecret, pc, loc,
                   refreshed, loggedOut, contactVars, limitVars, stopped>>

read_moderator(tok) ==
    LET res == GetCurrentUser(tok)
    IN GuardedRoute("moderator", tok, res,
                    /\ res.profile # {}
                    /\ get_current_moderator_user(CHOOSE u \in res.profile : TRUE))

read_admin(tok) ==
    LET res == GetCurrentUser(tok)
    IN GuardedRoute("admin", tok, res,
                    /\ res.profile # {}
                    /\ get_current_admin_user(CHOOSE u \in res.profile : TRUE))

\* ------------------------------------------------ PATCH /users/avatar
\* The URLs UploadFileService.upload_file can answer with.
AvatarUrls == {"url1", "url2"}

\* What the user table alone holds about the e-mail of an avatar update.
AvatarPre(email) ==
    IF ~\E i \in UserIds : users[i].email = email THEN "absent"
    ELSE IF \E i \in UserIds : users[i].email = email /\ users[i].role = "admin"
    THEN "admin"
    ELSE "plain"

\* The route: get_current_user resolves the caller, upload_file answers
\* with `url`, and UserService.update_avatar_url is called with the
\* caller's e-mail.
update_avatar_user(p, tok, url) ==
    LET res == GetCurrentUser(tok)
    IN /\ pc[p] = "idle"
       /\ ucache' = CacheAfter(res)
       /\ IF res.status # 200
          THEN /\ ev' = [NoEv EXCEPT !.op = "avatar", !.status = res.status,
                                     !.detail = res.detail, !.access = tok]
               /\ UNCHANGED <<pc, loc>>
          ELSE LET user == CHOOSE u \in res.profile : TRUE
               IN /\ ev' = [NoEv EXCEPT !.op = "avatar_call", !.access = tok,
                                        !.uname = user.username,
                                        !.email = user.email]
                  /\ pc' = [pc EXCEPT ![p] = "av_lookup"]
                  /\ loc' = [loc EXCEPT ![p] =
                               [NoLoc EXCEPT !.op = "avatar",
                                             !.email = user.email,
                                             !.url = url]]
       /\ UNCHANGED <<now, users, rows, blacklist, issued, nextSecret,
                      refreshed, loggedOut, contactVars, limitVars, stopped>>

\* UserService.update_avatar_url called with an e-mail of the caller's
\* choosing.
update_avatar_url_call(p, email, url) ==
    /\ pc[p] = "idle"
    /\ ev' = [NoEv EXCEPT !.op = "avatar_call", !.email = email]
    /\ pc' = [pc EXCEPT ![p] = "av_lookup"]
    /\ loc' = [loc EXCEPT ![p] = [NoLoc EXCEPT !.op = "avatar",
                                               !.email = email, !.url = url]]
    /\ UNCHANGED <<now, users, rows, blacklist, ucache, issued, nextSecret,
                   refreshed, loggedOut, contactVars, limitVars, stopped>>

AvatarForbidden_Never(user) == FALSE

\* The role check of UserService.update_avatar_url: TRUE raises 403.
AvatarForbidden(user) == user.role # "admin"

\* UserService.update_avatar_url up to the role check.
update_avatar_url_lookup(p) ==
    LET found == get_user_by_email(loc[p].email)
        pre == AvatarPre(loc[p].email)
        Fail(code, detail) ==
            /\ ev' = [NoEv EXCEPT !.op = "avatar", !.status = code,
                                  !.detail = detail, !.email = loc[p].email,
                                  !.pre = pre]
            /\ pc' = [pc EXCEPT ![p] = "idle"]
            /\ loc' = [loc EXCEPT ![p] = NoLoc]
    IN /\ pc[p] = "av_lookup"
       /\ IF found = {}
          THEN Fail(404, "NotFound")
          ELSE IF AvatarForbidden(users[CHOOSE i \in found : TRUE])
          THEN Fail(403, "InsufficientRole")
          ELSE /\ ev' = [NoEv EXCEPT !.op = "avatar_lookup",
                                     !.email = loc[p].email, !.pre = pre]
               /\ pc' = [pc EXCEPT ![p] = "av_write"]
               /\ loc' = [loc EXCEPT ![p].pre = pre]
       /\ UNCHANGED <<now, users, rows, blacklist, ucache, issued, nextSecret,
                      refreshed, loggedOut, contactVars, limitVars, stopped>>

\* UserRepository.update_avatar_url: the row of `email` with its avatar
\* set to `url`, committed.
UserRepository_update_avatar_url(email, url) ==
    [i \in UserIds |-> IF users[i].email = email
                       THEN [users[i] EXCEPT !.avatar = url]
                       ELSE users[i]]

\* The repository call of the service; db.refresh leaves the committed
\* row in the service's hands.
update_avatar_url_write(p) ==
    /\ pc[p] = "av_write"
    /\ users' = UserRepository_update_avatar_url(loc[p].email, loc[p].url)
    /\ loc' = [loc EXCEPT ![p].user =
                 Profile(users'[CHOOSE i \in UserIds :
                                   users[i].email = loc[p].email])]
    /\ pc' = [pc EXCEPT ![p] = "av_delete"]
    /\ ev' = [NoEv EXCEPT !.op = "avatar_write", !.email = loc[p].email,
                          !.pre = loc[p].pre, !.avatar = loc[p].url]
    /\ UNCHANGED <<now, rows, blacklist, ucache, issued, nextSecret,
                   refreshed, loggedOut, contactVars, limitVars, stopped>>

\* CacheService.delete_user_cache: DEL user:<username>.
delete_user_cache(username) == {c \in ucache : c.username # username}

update_avatar_url_delete(p) ==
    /\ pc[p] = "av_delete"
    /\ ucache' = delete_user_cache(loc[p].user.username)
    /\ pc' = [pc EXCEPT ![p] = "av_cache"]
    /\ ev' = [NoEv EXCEPT !.op = "avatar_delete", !.email = loc[p].email]
    /\ UNCHANGED <<now, users, rows, blacklist, issued, nextSecret, loc,
                   refreshed, loggedOut, contactVars, limitVars, stopped>>

\* cache_user with the committed row, and the answer.
update_avatar_url_cache(p) ==
    /\ pc[p] = "av_cache"
    /\ ucache' = CacheUser(loc[p].user)
    /\ ev' = [NoEv EXCEPT !.op = "avatar", !.status = 200,
                          !.email = loc[p].email, !.pre = loc[p].pre,
                          !.uname = loc[p].user.username,
                          !.avatar = loc[p].user.avatar]
    /\ pc' = [pc EXCEPT ![p] = "idle"]
    /\ loc' = [loc EXCEPT ![p] = NoLoc]
    /\ UNCHANGED <<now, users, rows, blacklist, issued, nextSecret,
                   refreshed, loggedOut, contactVars, limitVars, stopped>>

\* get_current_user as the event loop runs it: up to the await of the
\* store read, ...
get_current_user_read(p, tok) ==
    LET res == GetCurrentUser(tok)
    IN /\ pc[p] = "idle"
       /\ IF res.detail = "store"
          THEN /\ pc' = [pc EXCEPT ![p] = "gcu_cache"]
               /\ loc' = [loc EXCEPT ![p] =
                            [NoLoc EXCEPT !.op = "me", !.access = tok,
                                  !.user = CHOOSE u \in res.profile : TRUE]]
               /\ ev' = [NoEv EXCEPT !.op = "me_read", !.access = tok]
          ELSE /\ ev' = MeAnswer(tok, res)
               /\ UNCHANGED <<pc, loc>>
       /\ UNCHANGED <<now, users, rows, blacklist, ucache, issued, nextSecret,
                      refreshed, loggedOut, contactVars, limitVars, stopped>>

\* ... and from its cache_user on.
get_current_user_cache(p) ==
    /\ pc[p] = "gcu_cache"
    /\ ucache' = CacheUser(loc[p].user)
    /\ ev' = [NoEv EXCEPT !.op = "me", !.status = 200, !.detail = "store",
                          !.uname = loc[p].user.username,
                          !.access = loc[p].access,
                          !.avatar = loc[p].user.avatar]
    /\ pc' = [pc EXCEPT ![p] = "idle"]
    /\ loc' = [loc EXCEPT ![p] = NoLoc]
    /\ UNCHANGED <<now, users, rows, blacklist, issued, nextSecret,
                   refreshed, loggedOut, contactVars, limitVars, stopped>>

\* ------------------------------------------------ POST /auth/refresh
\* What the refresh_tokens table holds about the secret of a refresh when
\* the request arrives.
RefreshPre(secret) ==
    IF \E r \in rows : /\ r.token_hash = secret + HashOffset
                       /\ r.revoked_at = NoTime
                       /\ now < r.expired_at
    THEN "active"
    ELSE "inactive"

\* refresh, first await: validate_refresh_token.
RefreshValidate(p, secret) ==
    /\ pc[p] = "idle"
    /\ LET owner == ValidateRefreshToken(secret)
       IN IF owner = {}
          THEN /\ ev' = [NoEv EXCEPT !.op = "refresh", !.status = 401,
                                     !.detail = "InvalidRefreshToken",
                                     !.secret = secret,
                                     !.late = secret \in Rotated \cup LoggedOutRefresh,
                                     !.pre = RefreshPre(secret),
                                     !.bypass = 401]
               /\ UNCHANGED <<pc, loc>>
          ELSE LET uid == CHOOSE i \in owner : TRUE
               IN /\ nextSecret + InFlight({"r_create"}) <= MaxSecrets
                  /\ ev' = [NoEv EXCEPT !.op = "validate", !.status = 200,
                                        !.secret = secret,
                                        !.uname = users[uid].username,
                                        !.late = secret \in Rotated \cup LoggedOutRefresh,
                                        !.pre = RefreshPre(secret),
                                        !.bypass = 200]
                  /\ pc' = [pc EXCEPT ![p] = "r_create"]
                  /\ loc' = [loc EXCEPT ![p] =
                                [NoLoc EXCEPT !.op = "refresh",
                                              !.secret = secret, !.uid = uid,
                                              !.uname = users[uid].username,
                                              !.pre = RefreshPre(secret),
                                              !.late = secret \in Rotated \cup LoggedOutRefresh]]
    /\ UNCHANGED <<now, users, rows, blacklist, ucache, issued, nextSecret,
                   refreshed, loggedOut, contactVars, limitVars, stopped>>

\* refresh, second await: create_access_token, then create_refresh_token.
RefreshCreate(p) ==
    /\ pc[p] = "r_create"
    /\ LET access == CreateAccessToken(loc[p].uname)
       IN /\ rows' = SaveToken(loc[p].uid, HashToken(nextSecret),
                               now + RefreshTTL)
          /\ nextSecret' = nextSecret + 1
          /\ issued' = issued \cup {access}
          /\ loc' = [loc EXCEPT ![p].access = access,
                                ![p].newRefresh = nextSecret]
    /\ pc' = [pc EXCEPT ![p] = "r_revoke"]
    /\ ev' = NoEv
    /\ UNCHANGED <<now, users, blacklist, ucache, refreshed, loggedOut,
                   contactVars, limitVars, stopped>>

\* refresh, third await: revoke_refresh_token, then the response.
RefreshRevoke(p) ==
    /\ pc[p] = "r_revoke"
    /\ rows' = RevokeRefreshToken(loc[p].secret)
    /\ refreshed' = refreshed \cup {<<loc[p].secret, loc[p].newRefresh>>}
    /\ ev' = [NoEv EXCEPT !.op = "refresh", !.status = 200,
                          !.uname = loc[p].uname, !.secret = loc[p].secret,
                          !.access = loc[p].access,
                          !.newRefresh = loc[p].newRefresh,
                          !.late = loc[p].late, !.pre = loc[p].pre,
                          !.bypass = 200]
    /\ pc' = [pc EXCEPT ![p] = "idle"]
    /\ loc' = [loc EXCEPT ![p] = NoLoc]
    /\ UNCHANGED <<now, users, blacklist, ucache, issued, nextSecret, loggedOut,
                   contactVars, limitVars, stopped>>

\* refresh that ends between create_refresh_token, which has committed the
\* new row, and revoke_refresh_token: the worker dies or the store is gone,
\* and the client gets no answer it can use.
RefreshStop(p) ==
    /\ pc[p] = "r_revoke"
    /\ stopped' = stopped \cup {<<loc[p].secret, loc[p].newRefresh>>}
    /\ ev' = [NoEv EXCEPT !.op = "refresh", !.status = 500,
                          !.detail = "Stopped",
                          !.uname = loc[p].uname, !.secret = loc[p].secret,
                          !.late = loc[p].late, !.pre = loc[p].pre,
                          !.bypass = 500]
    /\ pc' = [pc EXCEPT ![p] = "idle"]
    /\ loc' = [loc EXCEPT ![p] = NoLoc]
    /\ UNCHANGED <<now, users, rows, blacklist, ucache, issued, nextSecret,
                   refreshed, loggedOut, contactVars, limitVars>>

\* ------------------------------------------------- POST /auth/logout
\* What the refresh_tokens table holds about the secret of a logout when
\* the request arrives.
LogoutPre(secret) ==
    IF \E r \in rows : /\ r.token_hash = secret + HashOffset
                       /\ r.revoked_at = NoTime
                       /\ r.expired_at > now
    THEN "active"
    ELSE "inactive"

\* logout, first await: validate_refresh_token.
LogoutValidate(p, tok, secret) ==
    /\ pc[p] = "idle"
    /\ LET owner == ValidateRefreshToken(secret)
       IN IF owner = {}
          THEN /\ ev' = [NoEv EXCEPT !.op = "logout", !.status = 401,
                                     !.detail = "InvalidRefreshToken",
                                     !.secret = secret, !.access = tok,
                                     !.pre = LogoutPre(secret),
                                     !.bypass = 401]
               /\ UNCHANGED <<pc, loc>>
          ELSE /\ ev' = [NoEv EXCEPT !.op = "validate", !.status = 200,
                                     !.secret = secret,
                                     !.uname = users[CHOOSE i \in owner : TRUE].username,
                                     !.pre = LogoutPre(secret),
                                     !.bypass = 200]
               /\ pc' = [pc EXCEPT ![p] = "lo_access"]
               /\ loc' = [loc EXCEPT ![p] =
                             [NoLoc EXCEPT !.op = "logout", !.secret = secret,
                                           !.access = tok,
                                           !.pre = LogoutPre(secret),
                                           !.uid = CHOOSE i \in owner : TRUE]]
    /\ UNCHANGED <<now, users, rows, blacklist, ucache, issued, nextSecret,
                   refreshed, loggedOut, contactVars, limitVars, stopped>>

\* logout, second await: revoke_access_token (decode, then SETEX).
LogoutRevokeAccess(p) ==
    /\ pc[p] = "lo_access"
    /\ LET tok == loc[p].access
       IN IF ~JwtDecodes(tok, now)
          THEN /\ ev' = [NoEv EXCEPT !.op = "logout", !.status = 401,
                                     !.detail = "InvalidToken",
                                     !.secret = loc[p].secret, !.access = tok,
                                     !.pre = loc[p].pre, !.bypass = 401]
               /\ pc' = [pc EXCEPT ![p] = "idle"]
               /\ loc' = [loc EXCEPT ![p] = NoLoc]
               /\ UNCHANGED blacklist
          ELSE IF BlacklistTTL(tok) = 0
          THEN /\ ev' = [NoEv EXCEPT !.op = "logout", !.status = 500,
                                     !.detail = "RedisInvalidExpireTime",
                                     !.secret = loc[p].secret, !.access = tok,
                                     !.pre = loc[p].pre, !.bypass = 500]
               /\ pc' = [pc EXCEPT ![p] = "idle"]
               /\ loc' = [loc EXCEPT ![p] = NoLoc]
               /\ UNCHANGED blacklist
          ELSE /\ blacklist' = Blacklisted(tok)
               /\ ev' = NoEv
               /\ pc' = [pc EXCEPT ![p] = "lo_refresh"]
               /\ UNCHANGED loc
    /\ UNCHANGED <<now, users, rows, ucache, issued, nextSecret, refreshed,
                   loggedOut, contactVars, limitVars, stopped>>

\* logout, third await: revoke_refresh_token, then 204.
LogoutRevokeRefresh(p) ==
    /\ pc[p] = "lo_refresh"
    /\ rows' = RevokeRefreshToken(loc[p].secret)
    /\ loggedOut' = loggedOut \cup {<<loc[p].access, loc[p].secret>>}
    /\ ev' = [NoEv EXCEPT !.op = "logout", !.status = 204,
                          !.secret = loc[p].secret, !.access = loc[p].access,
                          !.pre = loc[p].pre, !.bypass = 204]
    /\ pc' = [pc EXCEPT ![p] = "idle"]
    /\ loc' = [loc EXCEPT ![p] = NoLoc]
    /\ UNCHANGED <<now, users, blacklist, ucache, issued, nextSecret, refreshed,
                   contactVars, limitVars, stopped>>

\* ------------------------------------------------------------ contacts
\* A contact row: id, owner, first_name and email (unique over the whole
\* table); the remaining columns behave as first_name does.  Strings are
\* sequences of characters.
Names == {<<"a", "b">>, <<"B">>}
ContactEmails == {<<"a", "x">>, <<"c", "x">>}
Queries == {<<"b">>, <<"x">>}
Unset == <<>>

NoBody == [first_name |-> Unset, email |-> Unset]
NoContact == [id |-> 0, user_id |-> 0, first_name |-> <<>>, email |-> <<>>]

Lower(ch) == IF ch = "A" THEN "a" ELSE IF ch = "B" THEN "b" ELSE ch

LowerStr(s) == [i \in 1..Len(s) |-> Lower(s[i])]

\* column ILIKE '%query%'
ILike(value, query) ==
    \E i \in 0..(Len(value) - Len(query)) :
        SubSeq(LowerStr(value), i + 1, i + Len(query)) = LowerStr(query)

RECURSIVE OrderById(_)
OrderById(S) ==
    IF S = {} THEN <<>>
    ELSE LET first == CHOOSE c \in S : \A d \in S : c.id <= d.id
         IN <<first>> \o OrderById(S \ {first})

get_contact_by_id_AnyOwner(contact_id, user_id) ==
    {c \in contacts : c.id = contact_id}

\* ContactRepository.get_contact_by_id
get_contact_by_id(contact_id, user_id) ==
    {c \in contacts : c.id = contact_id /\ c.user_id = user_id}

\* ContactRepository.get_contacts
get_contacts(limit, offset, user_id) ==
    LET all == OrderById({c \in contacts : c.user_id = user_id})
        last == IF offset + limit < Len(all) THEN offset + limit ELSE Len(all)
    IN SubSeq(all, offset + 1, last)

\* ContactRepository.search_contacts
search_contacts(query, user_id) ==
    OrderById({c \in contacts : /\ c.user_id = user_id
                                /\ \/ ILike(c.first_name, query)
                                   \/ ILike(c.email, query)})

DeleteRow_Keeps(snap) == contacts

\* session.delete(contact); commit: DELETE ... WHERE id = :id
DeleteRow(snap) == {c \in contacts : c.id # snap.id}

\* (a dump without exclude_unset: every column takes the body's value)
UpdateRow_Replaces(snap, body) ==
    {IF c.id # snap.id THEN c
     ELSE [c EXCEPT !.first_name = body.first_name,
                    !.email = body.email] : c \in contacts}

\* setattr for every field set in the body; commit: UPDATE ... SET the
\* columns whose value differs from the loaded one.
UpdateRow(snap, body) ==
    {IF c.id # snap.id THEN c
     ELSE [c EXCEPT
             !.first_name = IF body.first_name \notin {Unset, snap.first_name}
                            THEN body.first_name ELSE @,
             !.email = IF body.email \notin {Unset, snap.email}
                       THEN body.email ELSE @] : c \in contacts}

\* The answer of a contacts route whose caller was not resolved.
Denied(op, tok, res) ==
    [NoEv EXCEPT !.op = op, !.access = tok, !.status = res.status,
                 !.detail = res.detail]

\* The answer of a contacts route to caller `user` about contact id `cid`.
Answer(op, tok, user, cid, status, detail, found) ==
    [NoEv EXCEPT !.op = op, !.access = tok, !.uname = user.username,
                 !.uid = user.id, !.cid = cid, !.status = status,
                 !.detail = detail, !.found = found]

\* Whether the user a token names has a contact with this id when the
\* request arrives.
ContactPre(tok, cid) ==
    IF \E c \in contacts : /\ c.id = cid
                           /\ \E i \in UserIds : /\ users[i].username = tok.sub
                                                 /\ c.user_id = i
    THEN "had" ELSE "lacked"

\* GET /contacts/
GetContacts(tok, limit, offset) ==
    LET res == GetCurrentUser(tok)
    IN /\ ev' = IF res.status # 200 THEN Denied("get_contacts", tok, res)
                ELSE LET user == CHOOSE u \in res.profile : TRUE
                     IN Answer("get_contacts", tok, user, 0, 200, "",
                               get_contacts(limit, offset, user.id))
       /\ ucache' = CacheAfter(res)
       /\ UNCHANGED <<now, users, rows, blacklist, issued, nextSecret, pc, loc,
                      refreshed, loggedOut, contactVars, limitVars, stopped>>

\* GET /contacts/search/
SearchContacts(tok, query) ==
    LET res == GetCurrentUser(tok)
    IN /\ ev' = IF res.status # 200 THEN Denied("search_contacts", tok, res)
                ELSE LET user == CHOOSE u \in res.profile : TRUE
                     IN Answer("search_contacts", tok, user, 0, 200, "",
                               search_contacts(query, user.id))
       /\ ucache' = CacheAfter(res)
       /\ UNCHANGED <<now, users, rows, blacklist, issued, nextSecret, pc, loc,
                      refreshed, loggedOut, contactVars, limitVars, stopped>>

\* GET /contacts/{contact_id}
GetContact(tok, cid) ==
    LET res == GetCurrentUser(tok)
    IN /\ ev' = IF res.status # 200 THEN Denied("get_contact", tok, res)
                ELSE LET user == CHOOSE u \in res.profile : TRUE
                         found == get_contact_by_id(cid, user.id)
                     IN IF found = {}
                        THEN [Answer("get_contact", tok, user, cid, 404,
                                     "ContactNotFound", <<>>)
                                EXCEPT !.pre = ContactPre(tok, cid)]
                        ELSE [Answer("get_contact", tok, user, cid, 200, "",
                                     OrderById(found))
                                EXCEPT !.pre = ContactPre(tok, cid)]
       /\ ucache' = CacheAfter(res)
       /\ UNCHANGED <<now, users, rows, blacklist, issued, nextSecret, pc, loc,
                      refreshed, loggedOut, contactVars, limitVars, stopped>>

\* POST /contacts/.  A caller resolved from the profile cache is a User
\* object that no session has loaded: Contact(user=user) cascades it into
\* the session and the flush fails on INSERT INTO users before the contact
\* is written.  A duplicate e-mail fails on the unique index after the
\* sequence has handed out the id.
CreateContact(tok, body) ==
    LET res == GetCurrentUser(tok)
    IN /\ ucache' = CacheAfter(res)
       /\ IF res.status # 200
          THEN /\ ev' = Denied("create_contact", tok, res)
               /\ UNCHANGED contactVars
          ELSE LET user == CHOOSE u \in res.profile : TRUE
               IN IF res.detail = "cached"
                  THEN /\ ev' = Answer("create_contact", tok, user, 0, 500,
                                       "IntegrityError", <<>>)
                       /\ UNCHANGED contactVars
                  ELSE IF \E c \in contacts : c.email = body.email
                  THEN /\ ev' = Answer("create_contact", tok, user, 0, 500,
                                       "IntegrityError", <<>>)
                       /\ nextContact' = nextContact + 1
                       /\ UNCHANGED contacts
                  ELSE LET contact == [id |-> nextContact,
                                       user_id |-> user.id,
                                       first_name |-> body.first_name,
                                       email |-> body.email]
                       IN /\ contacts' = contacts \cup {contact}
                          /\ nextContact' = nextContact + 1
                          /\ ev' = Answer("create_contact", tok, user,
                                          contact.id, 201, "", <<contact>>)
       /\ UNCHANGED <<now, users, rows, blacklist, issued, nextSecret, pc, loc,
                      refreshed, loggedOut, limitVars, stopped>>

\* PUT and DELETE /contacts/{contact_id}, up to the SELECT of
\* get_contact_by_id: 404, or the handler goes on with the loaded row.
ContactLookup(p, op, tok, cid, body) ==
    LET res == GetCurrentUser(tok)
    IN /\ pc[p] = "idle"
       /\ ucache' = CacheAfter(res)
       /\ IF res.status # 200
          THEN /\ ev' = Denied(op, tok, res)
               /\ UNCHANGED <<pc, loc>>
          ELSE LET user == CHOOSE u \in res.profile : TRUE
                   found == get_contact_by_id(cid, user.id)
               IN IF found = {}
                  THEN /\ ev' = [Answer(op, tok, user, cid, 404,
                                        "ContactNotFound", <<>>)
                                   EXCEPT !.pre = ContactPre(tok, cid)]
                       /\ UNCHANGED <<pc, loc>>
                  ELSE /\ ev' = NoEv
                       /\ pc' = [pc EXCEPT ![p] = op]
                       /\ loc' = [loc EXCEPT
                                    ![p] = [NoLoc EXCEPT
                                              !.op = op, !.access = tok,
                                              !.uname = user.username,
                                              !.uid = user.id, !.cid = cid,
                                              !.body = body,
                                              !.pre = ContactPre(tok, cid),
                                              !.snap = CHOOSE c \in found : TRUE]]
       /\ UNCHANGED <<now, users, rows, blacklist, issued, nextSecret,
                      refreshed, loggedOut, contactVars, limitVars, stopped>>

UpdateContactLookup(p, tok, cid, body) ==
    ContactLookup(p, "update_contact", tok, cid, body)

DeleteContactLookup(p, tok, cid) ==
    ContactLookup(p, "delete_contact", tok, cid, NoBody)

\* update_contact from setattr to the answer.  The UPDATE of a row that
\* has been deleted meanwhile matches nothing and raises, as does the
\* refresh of such a row.
UpdateContactWrite(p) ==
    /\ pc[p] = "update_contact"
    /\ LET snap == loc[p].snap
           body == loc[p].body
           user == [username |-> loc[p].uname, id |-> loc[p].uid]
           row == {c \in contacts : c.id = snap.id}
       IN IF row = {}
          THEN /\ ev' = [Answer("update_contact", loc[p].access, user,
                                snap.id, 500, "StaleData", <<>>)
                           EXCEPT !.pre = loc[p].pre]
               /\ UNCHANGED contacts
          ELSE IF /\ body.email \notin {Unset, snap.email}
                  /\ \E c \in contacts : c.id # snap.id /\ c.email = body.email
          THEN /\ ev' = [Answer("update_contact", loc[p].access, user,
                                snap.id, 500, "IntegrityError", <<>>)
                           EXCEPT !.pre = loc[p].pre]
               /\ UNCHANGED contacts
          ELSE /\ contacts' = UpdateRow(snap, body)
               /\ ev' = [Answer("update_contact", loc[p].access, user,
                                snap.id, 200, "",
                                OrderById({c \in UpdateRow(snap, body) :
                                              c.id = snap.id}))
                           EXCEPT !.pre = loc[p].pre]
    /\ pc' = [pc EXCEPT ![p] = "idle"]
    /\ loc' = [loc EXCEPT ![p] = NoLoc]
    /\ UNCHANGED <<now, users, rows, blacklist, ucache, issued, nextSecret,
                   refreshed, loggedOut, nextContact, limitVars, stopped>>

\* remove_contact from session.delete to the answer.  A DELETE that
\* matches no row is only warned about.
DeleteContactWrite(p) ==
    /\ pc[p] = "delete_contact"
    /\ contacts' = DeleteRow(loc[p].snap)
    /\ ev' = [Answer("delete_contact", loc[p].access,
                     [username |-> loc[p].uname, id |-> loc[p].uid],
                     loc[p].snap.id, 204, "", <<>>)
                EXCEPT !.pre = loc[p].pre]
    /\ pc' = [pc EXCEPT ![p] = "idle"]
    /\ loc' = [loc EXCEPT ![p] = NoLoc]
    /\ UNCHANGED <<now, users, rows, blacklist, ucache, issued, nextSecret,
                   refreshed, loggedOut, nextContact, limitVars, stopped>>

\* ----------------------------------------- @limiter.limit("5/minute")
\* The limiter keeps, per client address, a counter that lives for one
\* window from the first hit it counts.  A hit drops a counter whose
\* window is over, adds one, and passes while the counter is within the
\* limit; refused hits are counted too.
Window(addr) == IF limiter[addr].until <= now THEN NoWindow ELSE limiter[addr]

Counted(addr) ==
    [count |-> Window(addr).count + 1,
     until |-> IF Window(addr).count = 0 THEN now + RateWindow
               ELSE Window(addr).until]

Within_OneMore(count) == count <= RateLimit + 1

Within(count) == count <= RateLimit

\* GET /users/me from client address addr: the limiter's check comes
\* first, and only a hit that passes reaches the body.
MeLimited(addr, tok) ==
    LET res == GetCurrentUser(tok)
    IN /\ Counted(addr).count <= MaxHits
       /\ limiter' = [limiter EXCEPT ![addr] = Counted(addr)]
       /\ IF Within(Counted(addr).count)
          THEN /\ ev' = [MeAnswer(tok, res) EXCEPT !.addr = addr]
               /\ ucache' = CacheAfter(res)
               /\ served' = [served EXCEPT ![addr][now] = @ + 1]
          ELSE /\ ev' = [NoEv EXCEPT !.op = "me", !.status = 429,
                                     !.detail = "RequestsLimit",
                                     !.access = tok, !.addr = addr]
               /\ UNCHANGED <<ucache, served>>
       /\ UNCHANGED <<now, users, rows, blacklist, issued, nextSecret, pc, loc,
                      refreshed, loggedOut, contactVars, stopped>>

\* ------------------------------------------- cleanup_expired_tokens
\* (a sweep that drops every revoked row, whatever its age)
Reaper_NoCutoff ==
    /\ rows' = {r \in rows : ~(r.expired_at < now \/ r.revoked_at # NoTime)}
    /\ ev' = [NoEv EXCEPT !.op = "reaper"]
    /\ UNCHANGED <<now, users, blacklist, ucache, issued, nextSecret, pc, loc,
                   refreshed, loggedOut, contactVars, limitVars, stopped>>

Reaper ==
    /\ rows' = {r \in rows :
                  ~(\/ r.expired_at < now
                    \/ r.revoked_at # NoTime /\ r.revoked_at < now - ReaperCutoff)}
    /\ ev' = [NoEv EXCEPT !.op = "reaper"]
    /\ UNCHANGED <<now, users, blacklist, ucache, issued, nextSecret, pc, loc,
                   refreshed, loggedOut, contactVars, limitVars, stopped>>

\* ----------------------------------------------------- specifications
\* Tokens and secrets a client can present.
Presentable == issued \cup {Forge(t) : t \in issued}
KnownSecrets == UnknownSecret..(nextSecret - 1)

\* Confirmation mails sent so far to an address.
MailsTo(email) == Cardinality({t \in issued : t.iat # NoTime /\ t.sub = email})

\* Concurrent registrations only.
Registration ==
    \/ \E p \in Procs, u \in Usernames, e \in Emails, pw \in Passwords :
           RegCheckUsername(p, u, e, pw)
    \/ \E p \in Procs : RegCheckEmail(p)
    \/ \E p \in Procs, s \in {"s1", "s2"}, g \in {Null, "gravatar"} :
           RegCreate(p, s, g)

SpecReg == Init /\ [][Registration]_vars

\* One client at a time registers, confirms and logs in.
SignUp(identities) ==
    \/ \E r \in identities : RegCheckUsername(1, r[1], r[2], "pw1")
    \/ RegCheckEmail(1)
    \/ \E s \in Salts : RegCreate(1, s, "gravatar")
    \/ \E r \in identities : MailsTo(r[2]) < MaxMails /\ RequestEmail(r[2])
    \/ \E t \in issued : ConfirmedEmail(t)

NextLogin ==
    \/ Tick
    \/ SignUp({<<"alice", "a@x">>, <<"m@x", "m@x">>})
    \/ \E u \in Usernames, pw \in Passwords : Login(u, pw)
    \/ \E t \in issued : Me(t)

SpecLogin == Init /\ [][NextLogin]_vars

\* Sessions of two users side by side, with right and wrong passwords.
NextPair ==
    \/ Tick
    \/ SignUp({<<"alice", "a@x">>, <<"m@x", "m@x">>})
    \/ \E u \in Usernames, pw \in Passwords : Login(u, pw)

SpecPair == Init /\ [][NextPair]_vars

\* Tokens of the access-token shape that a client holds.
AccessTokens == {t \in issued : t.iat = NoTime}

\* Rotation: one user's sessions, refreshed by concurrent requests, and
\* the reaper.
Next ==
    \/ Tick
    \/ SignUp({<<"alice", "a@x">>})
    \/ Login("alice", "pw1")
    \/ \E p \in Procs, s \in KnownSecrets : RefreshValidate(p, s)
    \/ \E p \in Procs : RefreshCreate(p)
    \/ \E p \in Procs : RefreshRevoke(p)
    \/ Reaper

Spec == Init /\ [][Next]_vars

\* The sweep: one user's sessions rotated one request at a time, followed
\* past the expiry of the first refresh tokens.
NextSweep ==
    \/ Tick
    \/ LateTick
    \/ SignUp({<<"alice", "a@x">>})
    \/ Login("alice", "pw1")
    \/ \E s \in KnownSecrets : RefreshValidate(1, s)
    \/ RefreshCreate(1)
    \/ RefreshRevoke(1)
    \/ Reaper

SpecSweep == Init /\ [][NextSweep]_vars

\* The requests a client can make about contacts.
NewBodies == {[first_name |-> <<"a", "b">>, email |-> <<"a", "x">>],
              [first_name |-> <<"B">>, email |-> <<"c", "x">>]}
UpdateBodies == {[first_name |-> <<"B">>, email |-> Unset],
                 [first_name |-> Unset, email |-> <<"c", "x">>],
                 [first_name |-> <<"a", "b">>, email |-> <<"c", "x">>]}
ContactIds == 1..MaxContacts

LoggedIn(u) == \E t \in AccessTokens : t.sub = u

\* Creations and reads, and updates and deletions through the request
\* slots `up` and `dp`.
ContactRoutes(up, dp) ==
    \/ \E t \in AccessTokens, b \in NewBodies :
          nextContact <= MaxContacts /\ CreateContact(t, b)
    \/ \E t \in AccessTokens, cid \in ContactIds : GetContact(t, cid)
    \/ \E t \in AccessTokens, limit \in {1, 2}, offset \in {0, 1} :
          GetContacts(t, limit, offset)
    \/ \E t \in AccessTokens, q \in Queries : SearchContacts(t, q)
    \/ \E t \in AccessTokens, cid \in ContactIds, b \in UpdateBodies :
          UpdateContactLookup(up, t, cid, b)
    \/ UpdateContactWrite(up)
    \/ \E t \in AccessTokens, cid \in ContactIds :
          DeleteContactLookup(dp, t, cid)
    \/ DeleteContactWrite(dp)

\* The address books of two users, one update or deletion at a time.
NextContacts ==
    \/ (\A u \in Usernames : LoggedIn(u)) /\ Tick
    \/ SignUp({<<"alice", "a@x">>, <<"m@x", "m@x">>})
    \/ \E u \in Usernames : ~LoggedIn(u) /\ Login(u, "pw1")
    \/ (\A u \in Usernames : LoggedIn(u)) /\ ContactRoutes(1, 1)

SpecContacts == Init /\ [][NextContacts]_vars

\* One session after the other: each ends by rotation, logout or expiry
\* before the user logs in again.
NextRevive ==
    \/ LoggedIn("alice") /\ Tick
    \/ SignUp({<<"alice", "a@x">>})
    \/ (\A r \in rows : r.revoked_at # NoTime) /\ Login("alice", "pw1")
    \/ \E s \in KnownSecrets : RefreshValidate(1, s)
    \/ RefreshCreate(1)
    \/ RefreshRevoke(1)
    \/ \E t \in AccessTokens, s \in KnownSecrets : LogoutValidate(1, t, s)
    \/ LogoutRevokeAccess(1)
    \/ LogoutRevokeRefresh(1)

SpecRevive == Init /\ [][NextRevive]_vars

\* GET /users/me from two client addresses.
NextRate ==
    \/ LoggedIn("alice") /\ Tick
    \/ SignUp({<<"alice", "a@x">>})
    \/ ~LoggedIn("alice") /\ Login("alice", "pw1")
    \/ \E a \in Addrs, t \in AccessTokens :
          MeLimited(a, t) \/ MeLimited(a, Forge(t))

SpecRate == Init /\ [][NextRate]_vars

\* One user's address book, an update racing a deletion.
NextAddressBook ==
    \/ LoggedIn("alice") /\ (Tick \/ LateTick)
    \/ SignUp({<<"alice", "a@x">>})
    \/ ~LoggedIn("alice") /\ Login("alice", "pw1")
    \/ ContactRoutes(1, 2)

SpecAddressBook == Init /\ [][NextAddressBook]_vars

\* One account, made admin by an operator, that changes its avatar while
\* another request of the same account resolves its caller.
NextAvatar ==
    \/ LoggedIn("alice") /\ Tick
    \/ SignUp({<<"alice", "a@x">>})
    \/ ~LoggedIn("alice") /\ Login("alice", "pw1")
    \/ \E i \in UserIds, role \in {"user", "admin"} : GrantRole(i, role)
    \/ \E t \in AccessTokens, url \in AvatarUrls : update_avatar_user(1, t, url)
    \/ update_avatar_url_lookup(1)
    \/ update_avatar_url_write(1)
    \/ update_avatar_url_delete(1)
    \/ update_avatar_url_cache(1)
    \/ \E t \in AccessTokens : get_current_user_read(2, t)
    \/ get_current_user_cache(2)

SpecAvatar == Init /\ [][NextAvatar]_vars

\* UserService.update_avatar_url called with known and unknown e-mails.
NextAvatarService ==
    \/ LoggedIn("alice") /\ Tick
    \/ SignUp({<<"alice", "a@x">>})
    \/ ~LoggedIn("alice") /\ Login("alice", "pw1")
    \/ \E i \in UserIds, role \in {"user", "admin"} : GrantRole(i, role)
    \/ \E e \in Emails, url \in AvatarUrls : update_avatar_url_call(1, e, url)
    \/ update_avatar_url_lookup(1)
    \/ update_avatar_url_write(1)
    \/ update_avatar_url_delete(1)
    \/ update_avatar_url_cache(1)
    \/ \E t \in AccessTokens : Me(t)

SpecAvatarService == Init /\ [][NextAvatarService]_vars

\* Logout: one user's sessions, their access tokens and the blacklist.
NextLogout ==
    \/ Tick
    \/ SignUp({<<"alice", "a@x">>})
    \/ Login("alice", "pw1")
    \/ \E t \in AccessTokens : Me(t)
    \/ \E t \in AccessTokens, s \in KnownSecrets : LogoutValidate(1, t, s)
    \/ LogoutRevokeAccess(1)
    \/ LogoutRevokeRefresh(1)

SpecLogout == Init /\ [][NextLogout]_vars

\* Two users, one session each, and logouts that present any access
\* token with any refresh secret.
NextSignOut ==
    \/ (\A u \in Usernames : LoggedIn(u)) /\ Tick
    \/ SignUp({<<"alice", "a@x">>, <<"m@x", "m@x">>})
    \/ \E u \in Usernames : ~LoggedIn(u) /\ Login(u, "pw1")
    \/ \E t \in AccessTokens, s \in KnownSecrets : LogoutValidate(1, t, s)
    \/ LogoutRevokeAccess(1)
    \/ LogoutRevokeRefresh(1)

SpecSignOut == Init /\ [][NextSignOut]_vars

\* One account whose session is rotated while its access tokens are used
\* and logged out.
NextKeep ==
    \/ LoggedIn("alice") /\ Tick
    \/ ~LoggedIn("alice") /\ SignUp({<<"alice", "a@x">>})
    \/ nextSecret <= MaxSessions /\ Login("alice", "pw1")
    \/ \E s \in KnownSecrets : RefreshValidate(1, s)
    \/ RefreshCreate(1)
    \/ RefreshRevoke(1)
    \/ \E t \in AccessTokens : Me(t)
    \/ \E t \in AccessTokens, s \in KnownSecrets : LogoutValidate(1, t, s)
    \/ LogoutRevokeAccess(1)
    \/ LogoutRevokeRefresh(1)

SpecKeep == Init /\ [][NextKeep]_vars

\* Two users, one login each, whose sessions are rotated.
NextOwners ==
    \/ (\A u \in Usernames : LoggedIn(u)) /\ Tick
    \/ SignUp({<<"alice", "a@x">>, <<"m@x", "m@x">>})
    \/ \E u \in Usernames : ~LoggedIn(u) /\ Login(u, "pw1")
    \/ \E s \in KnownSecrets : RefreshValidate(1, s)
    \/ RefreshCreate(1)
    \/ RefreshRevoke(1)

SpecOwners == Init /\ [][NextOwners]_vars

\* One session from login to the expiry of its access token: the bearer
\* presents signed and mis-signed tokens, and logs out.
NextSession ==
    \/ Tick
    \/ LateTick
    \/ SignUp({<<"alice", "a@x">>})
    \/ \E pw \in Passwords : nextSecret <= MaxSessions /\ Login("alice", pw)
    \/ \E t \in AccessTokens : Me(t) \/ Me(Forge(t))
    \/ \E t \in AccessTokens, s \in KnownSecrets : LogoutValidate(1, t, s)
    \/ LogoutRevokeAccess(1)
    \/ LogoutRevokeRefresh(1)

SpecSession == Init /\ [][NextSession]_vars

\* Role gates: one user whose role an operator changes while the user
\* calls the gated routes.
NextRoles ==
    \/ Tick
    \/ SignUp({<<"alice", "a@x">>})
    \/ nextSecret <= MaxSessions /\ Login("alice", "pw1")
    \/ \E i \in UserIds, role \in Roles : GrantRole(i, role)
    \/ \E t \in AccessTokens : read_moderator(t)
    \/ \E t \in AccessTokens : read_admin(t)

SpecRoles == Init /\ [][NextRoles]_vars

\* ------------------------------------------------------------ claims
Succeeded(status) == status \in 200..299

\* C1: once a refresh presenting secret R has been answered with a new
\* pair, the returned secret differs from R, R no longer validates, and
\* every refresh that arrives afterwards with R is answered 401
\* InvalidRefreshToken, whatever ran in between.
C1_RotationRetiresSecret ==
    /\ \A pr \in refreshed : pr[1] # pr[2]
    /\ \A R \in Rotated :
          ~\E r \in rows : /\ r.token_hash = HashToken(R)
                           /\ r.revoked_at = NoTime
                           /\ r.expired_at > now
    /\ (ev.op \in {"refresh", "validate"} /\ ev.late)
          => (ev.status = 401 /\ ev.detail = "InvalidRefreshToken")

\* A refresh presenting an already rotated secret has just been refused.
C1_Witness ==
    /\ ev.op = "refresh" /\ ev.late /\ ev.status = 401
    /\ ev.secret \in Rotated
    /\ \E r \in rows : r.token_hash = HashToken(ev.secret)

\* C3: of all refresh requests presenting the same secret, at most one is
\* answered with a new token pair.
C3_SingleUse ==
    \A R \in Rotated : Cardinality({pr \in refreshed : pr[1] = R}) <= 1

\* C10: validate_refresh_token passes exactly when a row with the hash of
\* the presented secret has revoked_at null and expired_at > now, and it
\* returns that row's owner; a row with expired_at <= now is never active.
C10_ActiveIffUnrevokedUnexpired ==
    /\ \A r \in rows :
          (r \in GetActiveToken(r.token_hash, now))
              <=> (r.revoked_at = NoTime /\ r.expired_at > now)
    /\ ev.op = "validate" =>
          \E r \in rows : /\ r.token_hash = HashToken(ev.secret)
                          /\ r.revoked_at = NoTime
                          /\ r.expired_at > now
                          /\ r.user_id \in UserIds
                          /\ users[r.user_id].username = ev.uname
    /\ (ev.op = "refresh" /\ ev.detail = "InvalidRefreshToken") =>
          ~\E r \in rows : /\ r.token_hash = HashToken(ev.secret)
                           /\ r.revoked_at = NoTime
                           /\ r.expired_at > now
                           /\ r.user_id \in UserIds

\* A secret whose row is unrevoked but has reached expired_at was refused.
C10_Witness ==
    /\ ev.op = "refresh" /\ ev.status = 401
    /\ \E r \in rows : /\ r.token_hash = HashToken(ev.secret)
                       /\ r.revoked_at = NoTime
                       /\ r.expired_at <= now

\* C2: once a logout with access token A and refresh secret R has been
\* answered 204, every later get_current_user(A) is answered 401
\* TokenRevoked and R never validates again.
C2_LogoutKillsBoth ==
    /\ (ev.op = "me" /\ ev.late)
          => (ev.status = 401 /\ ev.detail = "TokenRevoked")
    /\ \A R \in LoggedOutRefresh :
          ~\E r \in rows : /\ r.token_hash = HashToken(R)
                           /\ r.revoked_at = NoTime
                           /\ r.expired_at > now

\* C4: every request has the same success/failure outcome as it would
\* have with every cache lookup answering absent.
C4_CacheBypass == Succeeded(ev.status) <=> Succeeded(ev.bypass)

\* C5: a login for an existing confirmed user with a password that does
\* not verify against the stored hash is answered 401 'Incorrect username
\* or password' and issues neither an access token nor a refresh token.
C5_WrongPasswordRejected ==
    (ev.op = "login" /\ ev.pre = "badpw")
        => /\ ev.status = 401 /\ ev.detail = "BadCredentials"
           /\ ev.access = NoTok /\ ev.newRefresh = NoSecret

\* C6: a login for a user whose confirmed flag is false is answered 401
\* 'Email is not confirmed', whatever the password, and issues neither an
\* access token nor a refresh token.
C6_UnconfirmedRejected ==
    (ev.op = "login" /\ ev.pre = "unconfirmed")
        => /\ ev.status = 401 /\ ev.detail = "EmailNotConfirmed"
           /\ ev.access = NoTok /\ ev.newRefresh = NoSecret

\* C7: a login with the right password for a confirmed user is answered
\* with an access token whose sub is that username and with a refresh
\* secret for which exactly one row, new, active and owned by that user,
\* was added to refresh_tokens.
C7_LoginIssuesPair ==
    [][(ev'.op = "login" /\ ev'.pre = "ok") =>
          /\ ev'.status = 200
          /\ ev'.access.sig = "hs" /\ ev'.access.sub = ev'.uname
          /\ ev'.access.exp * TicksPerSec > now'
          /\ \E r \in rows' \ rows :
                /\ rows' = rows \cup {r}
                /\ r.token_hash = HashToken(ev'.newRefresh)
                /\ \A q \in rows : q.token_hash # r.token_hash
                /\ r.revoked_at = NoTime /\ r.expired_at > now'
                /\ r.user_id \in UserIds
                /\ users[r.user_id].username = ev'.uname]_vars

\* A confirmed user has just logged in with the right password while
\* another user's session exists.
C7_Witness ==
    /\ ev.op = "login" /\ ev.pre = "ok" /\ ev.status = 200
    /\ \E r \in rows : users[r.user_id].username # ev.uname

\* C8: a registration whose username exists is answered 409 UsernameTaken,
\* also when its e-mail exists too; one whose e-mail alone exists is
\* answered 409 EmailTaken; neither changes the user table.
C8_RegisterConflicts ==
    [][/\ (ev'.op = "register" /\ ev'.pre = "uname_taken")
             => (ev'.status = 409 /\ ev'.detail = "UsernameTaken")
       /\ (ev'.op = "register" /\ ev'.pre = "email_taken")
             => (ev'.status = 409 /\ ev'.detail = "EmailTaken")
       /\ (ev'.op = "register" /\ ev'.status = 409) => users' = users]_vars

\* A registration colliding on both username and e-mail was refused.
C8_Witness ==
    /\ ev.op = "register" /\ ev.pre = "uname_taken" /\ ev.status = 409
    /\ \E i \in UserIds : users[i].email = ev.email
    /\ \E i \in UserIds : users[i].username = ev.uname

\* C9: no two user rows share a username and no two share an e-mail.
C9_UniqueUsers ==
    \A i, j \in UserIds :
        i # j => /\ users[i].username # users[j].username
                 /\ users[i].email # users[j].email

\* A registration that passed both lookups lost the race for its username
\* or e-mail to a concurrent one.
C9_Witness ==
    /\ ev.op = "register" /\ ev.status = 500 /\ ev.pre = "free"
    /\ Len(users) > 0

\* C11: get_current_user refuses a token found in the blacklist with 401
\* TokenRevoked before it decodes it, and only then decodes: a token that
\* is not blacklisted and does not decode (wrong signature, or exp
\* reached) is refused with 401 InvalidToken.
C11_BlacklistFirst ==
    ev.op = "me" =>
        /\ ev.listed => (ev.status = 401 /\ ev.detail = "TokenRevoked")
        /\ ev.detail = "TokenRevoked" => ev.listed
        /\ (~ev.listed /\ ~(ev.access.sig = "hs"
                            /\ now < ev.access.exp * TicksPerSec))
              => (ev.status = 401 /\ ev.detail = "InvalidToken")

\* A token that is in the blacklist after a logout was presented and
\* refused as revoked.
C11_Witness ==
    /\ ev.op = "me" /\ ev.listed /\ ev.late
    /\ ev.status = 401 /\ ev.detail = "TokenRevoked"

\* C12: get_current_user answers with a user only for a token that carries
\* the server's signature, whose exp lies after the current time and that
\* is not in the blacklist, and the user's username is the token's sub;
\* at or after exp the token is refused.
C12_OnlyValidTokens ==
    (ev.op = "me" /\ ev.status = 200) =>
        /\ ev.access.sig = "hs"
        /\ now < ev.access.exp * TicksPerSec
        /\ ~ev.listed
        /\ ev.uname = ev.access.sub

\* A signed access token that is not blacklisted was presented at the very
\* instant of its exp and refused.
C12_Witness ==
    /\ ev.op = "me" /\ ev.status = 401 /\ ev.detail = "InvalidToken"
    /\ ev.access.sig = "hs" /\ ev.access.iat = NoTime /\ ~ev.listed
    /\ now = ev.access.exp * TicksPerSec

\* C13: every blacklist entry written by revoke_token lasts exactly until
\* the exp of its token, and revoke_token succeeds however little of the
\* token's lifetime remains.
C13_BlacklistLapsesWithToken ==
    /\ \A e \in blacklist : e.until = e.token.exp * TicksPerSec
    /\ ev.detail # "RedisInvalidExpireTime"

\* C14: revoke_access_token answers no error for a signed access token
\* whose exp has passed; it skips the blacklist and returns.
C14_ExpiredAccessSkipped ==
    ~(/\ ev.op = "logout" /\ ev.status = 401 /\ ev.detail = "InvalidToken"
      /\ ev.access.sig = "hs" /\ ev.access.exp * TicksPerSec <= now)

C16_RoleGuards ==
    /\ (ev.op = "moderator" /\ ev.role # "") =>
          /\ ev.status = 200 <=> ev.role \in {"moderator", "admin"}
          /\ ev.status # 200 =>
                (ev.status = 403 /\ ev.detail = "InsufficientRole")
    /\ (ev.op = "admin" /\ ev.role # "") =>
          /\ ev.status = 200 <=> ev.role = "admin"
          /\ ev.status # 200 =>
                (ev.status = 403 /\ ev.detail = "InsufficientRole")

\* An admin has just passed the moderator gate.
C16_Witness ==
    /\ ev.op = "moderator" /\ ev.role = "admin" /\ ev.status = 200

\* C17: a login for a username that does not exist and a login for an
\* existing confirmed user with a wrong password get the same answer, 401
\* 'Incorrect username or password', so the response does not tell the two
\* apart.
C17_NoEnumeration ==
    (ev.op = "login" /\ ev.pre \in {"absent", "badpw"})
        => (ev.status = 401 /\ ev.detail = "BadCredentials")

\* C18: token_hash, the one column of refresh_tokens that is filled from
\* the secret, never holds a raw secret that was handed to a client: it
\* holds the hash of one; and the row that validates a presented secret is
\* the row whose token_hash is the hash of that secret.
C18_OnlyHashStored ==
    /\ \A r \in rows :
          /\ r.token_hash \notin 1..(nextSecret - 1)
          /\ \E s \in 1..(nextSecret - 1) : r.token_hash = s + HashOffset
    /\ ev.op = "validate" =>
          /\ ~\E r \in rows : r.token_hash = ev.secret
          /\ \E r \in rows : /\ r.token_hash = ev.secret + HashOffset
                             /\ users[r.user_id].username = ev.uname

\* A presented secret has just been validated while the table holds the
\* rows of several secrets.
C18_Witness ==
    /\ ev.op = "validate" /\ ev.status = 200 /\ ev.secret \in 1..(nextSecret - 1)
    /\ Cardinality(rows) > 1

\* C19: when the cache holds no entry for a username that exists in the
\* user table, authenticate and get_current_user decide from the table:
\* the login is answered as the stored confirmed flag and password hash
\* say, and a valid token resolves to the stored user; a cache miss never
\* yields 'user does not exist'.
C19_CacheAdvisory ==
    /\ (ev.op = "login" /\ ~ev.hit /\ ev.pre # "absent") =>
          /\ ev.pre = "ok" => ev.status = 200
          /\ ev.pre = "unconfirmed" =>
                (ev.status = 401 /\ ev.detail = "EmailNotConfirmed")
          /\ ev.pre = "badpw" =>
                (ev.status = 401 /\ ev.detail = "BadCredentials")
    /\ (/\ ev.op = "me" /\ ~ev.hit /\ ~ev.listed
        /\ ev.access.sig = "hs" /\ now < ev.access.exp * TicksPerSec
        /\ \E i \in UserIds : users[i].username = ev.access.sub) =>
          /\ ev.status = 200 /\ ev.detail # "CouldNotValidate"
          /\ ev.uname = ev.access.sub

\* A valid token was presented after the cached profile of its user had
\* lapsed, and the user was resolved.
C19_Witness ==
    /\ ev.op = "me" /\ ~ev.hit /\ ev.status = 200
    /\ ucache # {}

\* C20: a logout whose refresh secret is unknown, revoked or expired when
\* the request arrives is answered 401 at validation: it never gets as far
\* as the blacklist or the revocation, and its answer leaves the blacklist
\* and every refresh-token row as they were.
C20_InvalidRefreshChangesNothing ==
    [][/\ (ev'.op = "logout" /\ ev'.pre = "inactive") =>
             /\ ev'.status = 401 /\ ev'.detail = "InvalidRefreshToken"
             /\ blacklist' = blacklist /\ rows' = rows
       /\ \A p \in Procs :
             pc'[p] \in {"lo_access", "lo_refresh"} => loc'[p].pre = "active"]_vars

\* A logout presenting a secret that an earlier logout had revoked was
\* refused.
C20_Witness ==
    /\ ev.op = "logout" /\ ev.pre = "inactive" /\ ev.status = 401
    /\ ev.access.sig = "hs"
    /\ \E r \in rows : /\ r.token_hash = HashToken(ev.secret)
                       /\ r.revoked_at # NoTime

\* C21: a refresh whose secret is unknown, revoked or expired when the
\* request arrives is answered 401 InvalidRefreshToken at validation and
\* changes nothing: no access token is issued, no refresh-token row is
\* created and none is revoked, and the request goes no further.
C21_InvalidRefreshIsRejected ==
    [][/\ (ev'.op = "refresh" /\ ev'.pre = "inactive") =>
             /\ ev'.status = 401 /\ ev'.detail = "InvalidRefreshToken"
             /\ ev'.access = NoTok /\ ev'.newRefresh = NoSecret
             /\ rows' = rows /\ issued' = issued /\ nextSecret' = nextSecret
       /\ \A p \in Procs :
             pc'[p] \in {"r_create", "r_revoke"} => loc'[p].pre = "active"]_vars

\* A refresh presenting a secret whose row is unrevoked but has expired
\* was refused while another row was still active.
C21_Witness ==
    /\ ev.op = "refresh" /\ ev.pre = "inactive" /\ ev.status = 401
    /\ \E r \in rows : /\ r.token_hash = HashToken(ev.secret)
                       /\ r.revoked_at = NoTime
    /\ \E r \in rows : r.revoked_at = NoTime /\ r.expired_at > now

\* C22: a registration that is answered while its username and e-mail are
\* both free is answered 201 and adds exactly one user row, with the
\* requested username and e-mail, confirmed = false and role = user; when
\* the avatar fetch fails the row is created all the same, with a null
\* avatar.
C22_RegisterCreatesOneUser ==
    [][(/\ ev'.op = "register"
        /\ ~\E i \in UserIds : \/ users[i].username = ev'.uname
                               \/ users[i].email = ev'.email) =>
          /\ ev'.status = 201
          /\ Len(users') = Len(users) + 1
          /\ SubSeq(users', 1, Len(users)) = users
          /\ LET u == users'[Len(users')]
             IN /\ u.username = ev'.uname /\ u.email = ev'.email
                /\ u.confirmed = FALSE /\ u.role = "user"
                /\ u.avatar = ev'.avatar]_vars

\* A registration whose avatar fetch failed has just created a user with
\* a null avatar.
C22_Witness ==
    /\ ev.op = "register" /\ ev.status = 201 /\ ev.avatar = Null
    /\ Len(users) > 0 /\ users[Len(users)].avatar = Null
    /\ users[Len(users)].username = ev.uname

\* C23: the confirmed flag of a user starts false, turns true only in a
\* step of the e-mail confirmation flow for that user, and never turns
\* false again; a confirmation or a confirmation-mail request for a user
\* that is already confirmed reports 'already confirmed' and writes
\* nothing.
C23_ConfirmedMonotone ==
    [][/\ \A i \in UserIds :
             /\ users[i].confirmed => users'[i].confirmed
             /\ (~users[i].confirmed /\ users'[i].confirmed) =>
                   /\ ev'.op = "confirm" /\ ev'.detail = "Confirmed"
                   /\ ev'.access.sub = users[i].email
       /\ \A i \in (1..Len(users')) \ UserIds : ~users'[i].confirmed
       /\ (/\ ev'.op = "confirm"
           /\ ev'.access.sig = "hs" /\ now < ev'.access.exp * TicksPerSec
           /\ \E i \in UserIds : /\ users[i].email = ev'.access.sub
                                 /\ users[i].confirmed) =>
             (ev'.detail = "AlreadyConfirmed" /\ users' = users)
       /\ (/\ ev'.op = "request_email"
           /\ \E i \in UserIds : /\ users[i].email = ev'.email
                                 /\ users[i].confirmed) =>
             /\ ev'.detail = "AlreadyConfirmed"
             /\ users' = users /\ issued' = issued]_vars

\* The confirmation link of a user that is already confirmed was opened
\* again.
C23_Witness ==
    /\ ev.op = "confirm" /\ ev.detail = "AlreadyConfirmed"
    /\ \E i \in UserIds : users[i].email = ev.access.sub /\ users[i].confirmed
    /\ \E i \in UserIds : ~users[i].confirmed

\* C24: a sweep of the reaper deletes exactly the refresh-token rows whose
\* expiry lies before the sweep or that were revoked longer ago than the
\* retention period; it never deletes an active row, and the rows a later
\* validation, refresh or logout finds active for a secret are the same
\* with and without the sweep.
C24_ReaperDeletesOnlyDeadRows ==
    [][ev'.op = "reaper" =>
         /\ now' = now
         /\ rows' \subseteq rows
         /\ \A r \in rows :
               r \notin rows' <=>
                  \/ r.expired_at < now
                  \/ r.revoked_at # NoTime /\ now - r.revoked_at > ReaperCutoff
         /\ \A r \in rows :
               (r.revoked_at = NoTime /\ r.expired_at > now) => r \in rows'
         /\ \A s \in KnownSecrets, t \in now..MaxLate :
               {r \in rows : /\ r.token_hash = HashToken(s)
                             /\ r.revoked_at = NoTime /\ r.expired_at > t}
               = {r \in rows' : /\ r.token_hash = HashToken(s)
                                /\ r.revoked_at = NoTime /\ r.expired_at > t}]_vars

\* A sweep has removed the row of an issued secret, while an active row
\* and a freshly revoked row are still in the table.
C24_Witness ==
    /\ ev.op = "reaper"
    /\ \E s \in 1..(nextSecret - 1) :
          ~\E r \in rows : r.token_hash = HashToken(s)
    /\ \E r \in rows : r.revoked_at = NoTime /\ r.expired_at > now
    /\ \E r \in rows : r.revoked_at # NoTime

\* A sweep has removed a row that expired without ever being revoked.
C24_WitnessExpired ==
    /\ ev.op = "reaper"
    /\ \E s \in 1..(nextSecret - 1) :
          /\ ~\E r \in rows : r.token_hash = HashToken(s)
          /\ s \notin Rotated

\* C25: contacts are isolated per user.  Whatever a contacts route
\* returns to the user named by the access token are contacts of that
\* user, the rows a request changes, adds or removes are rows of that user,
\* and a get, update or delete naming a contact of another user answers
\* 404 and leaves the table unchanged.
C25_ContactsIsolated ==
    [][LET caller == {i \in UserIds : users[i].username = ev'.access.sub}
       IN /\ ev'.op \in {"get_contact", "get_contacts", "search_contacts",
                         "update_contact", "create_contact"} =>
                \A k \in 1..Len(ev'.found) : ev'.found[k].user_id \in caller
          /\ \A c \in contacts :
                c \notin contacts' =>
                   /\ ev'.op \in {"update_contact", "delete_contact"}
                   /\ c.user_id \in caller
          /\ \A c \in contacts' : c \notin contacts => c.user_id \in caller
          /\ (/\ ev'.op \in {"get_contact", "update_contact", "delete_contact"}
              /\ ev'.status # 401
              /\ \E c \in contacts : c.id = ev'.cid /\ c.user_id \notin caller) =>
                (/\ ev'.status = 404 /\ ev'.detail = "ContactNotFound"
                 /\ contacts' = contacts)]_vars

\* A user asked to delete a contact that exists and belongs to the other
\* user, while having a contact of their own.
C25_Witness ==
    /\ ev.op = "delete_contact" /\ ev.status = 404
    /\ \E c \in contacts : c.id = ev.cid /\ c.user_id # ev.uid
    /\ \E c \in contacts : c.user_id = ev.uid

\* C26: a get, update or delete that names a contact id its caller does
\* not have when the request arrives answers 404 'Contact not found' and
\* leaves the contacts unchanged; a delete answered 204 leaves no contact
\* with that id, and an id that is gone never comes back, so every get,
\* update or delete of it that arrives later answers 404.
C26_MissingContactIs404 ==
    [][/\ (/\ ev'.op \in {"get_contact", "update_contact", "delete_contact"}
           /\ ev'.status # 401
           /\ ev'.pre = "lacked") =>
             (/\ ev'.status = 404 /\ ev'.detail = "ContactNotFound"
              /\ contacts' = contacts)
       /\ (ev'.op = "delete_contact" /\ ev'.status = 204) =>
             ~\E c \in contacts' : c.id = ev'.cid
       /\ \A id \in 1..(nextContact - 1) :
             (~\E c \in contacts : c.id = id) => (~\E c \in contacts' : c.id = id)
       /\ \A c \in contacts' : c.id < nextContact']_vars

\* The only contact there ever was has been deleted, and a second delete
\* of its id has been answered 404.
C26_Witness ==
    /\ ev.op = "delete_contact" /\ ev.status = 404 /\ ev.pre = "lacked"
    /\ ev.cid = 1 /\ nextContact = 2 /\ contacts = {}

\* An update found its contact deleted under it by a concurrent delete.
C26_WitnessRace ==
    /\ ev.op = "update_contact" /\ ev.status = 500 /\ ev.detail = "StaleData"

\* The requests that the history `row` of one address counts at the
\* instants lo..hi.
RECURSIVE ServedIn(_, _, _)
ServedIn(row, lo, hi) ==
    IF lo > hi THEN 0
    ELSE (IF lo \in DOMAIN row THEN row[lo] ELSE 0) + ServedIn(row, lo + 1, hi)

\* C27 as stated: in any window of one minute at most RateLimit requests
\* of one address are served.
C27_AnyWindow ==
    \A a \in Addrs, t \in 0..MaxLate :
        ServedIn(served[a], t, t + RateWindow - 1) <= RateLimit

\* C27, amended: within one window of the limiter, which opens with the
\* first request of an address after its previous window has ended and
\* lasts one minute, at most RateLimit requests of that address are served;
\* every further request in that window is answered 429 and resolves no
\* user, and no request is refused while the window has room.
C27_FixedWindow ==
    [][/\ \A a \in Addrs :
             limiter'[a].until > now' =>
                ServedIn(served'[a], limiter'[a].until - RateWindow, now') <= RateLimit
       /\ \A a \in Addrs :
             (ev'.op = "me" /\ ev'.addr = a) =>
                LET open == limiter[a].until > now
                    sofar == IF open
                             THEN ServedIn(served[a], limiter[a].until - RateWindow, now)
                             ELSE 0
                IN /\ ev'.status = 429 <=> sofar >= RateLimit
                   /\ ev'.status = 429 =>
                         /\ ev'.uname = "" /\ ucache' = ucache
                         /\ served' = served
                   /\ ev'.status # 429 =>
                         served' = [served EXCEPT ![a][now] = @ + 1]]_vars

\* A request has been refused for one address while the other address is
\* still being served.
C27_Witness ==
    /\ ev.op = "me" /\ ev.status = 429
    /\ ServedIn(served[ev.addr], 0, MaxLate) = RateLimit
    /\ \E a \in Addrs : a # ev.addr /\ ServedIn(served[a], 0, MaxLate) > 0

C29_InactiveStaysInactive ==
    [][/\ \A r \in rows :
             /\ \A q \in rows' :
                   q.token_hash = r.token_hash =>
                      /\ q.expired_at = r.expired_at /\ q.user_id = r.user_id
                      /\ r.revoked_at # NoTime => q.revoked_at = r.revoked_at
             /\ (r.revoked_at # NoTime \/ r.expired_at <= now) =>
                   ~\E q \in rows' : /\ q.token_hash = r.token_hash
                                     /\ q.revoked_at = NoTime
                                     /\ q.expired_at > now'
       /\ \A q \in rows' :
             (~\E r \in rows : r.token_hash = q.token_hash) =>
                q.token_hash = HashToken(nextSecret)]_vars

\* After a logout revoked a refresh token, the user logged in again and
\* the revoked row is still in the table, revoked.
C29_Witness ==
    /\ ev.op = "login" /\ ev.status = 200
    /\ \E s \in LoggedOutRefresh :
          /\ s # ev.newRefresh
          /\ \E r \in rows : r.token_hash = HashToken(s) /\ r.revoked_at # NoTime
    /\ \E r \in rows : r.revoked_at = NoTime /\ r.expired_at > now

\* One account whose refresh may end between its two writes, with the
\* reaper and the clock running beside it.
NextStop ==
    \/ Tick
    \/ SignUp({<<"alice", "a@x">>})
    \/ Login("alice", "pw1")
    \/ \E s \in KnownSecrets : RefreshValidate(1, s)
    \/ RefreshCreate(1)
    \/ RefreshRevoke(1)
    \/ RefreshStop(1)
    \/ Reaper

SpecStop == Init /\ [][NextStop]_vars

\* C30: a refresh that stops after it has stored the new refresh token and
\* before it has revoked the presented one leaves both tokens in the
\* table, the new one active and the presented one as it was; and after
\* the next completed rotation, and after the next sweep of the reaper,
\* the two tokens of such a refresh are not both active.
C30_StoppedRefreshSelfHeals ==
    [][LET Live(s) == \E r \in rows' : /\ r.token_hash = HashToken(s)
                                       /\ r.revoked_at = NoTime
                                       /\ r.expired_at > now'
       IN /\ \A pair \in stopped' \ stopped :
                /\ Live(pair[2])
                /\ (\E r \in rows : /\ r.token_hash = HashToken(pair[1])
                                    /\ r.revoked_at = NoTime
                                    /\ r.expired_at > now) => Live(pair[1])
          /\ (\/ ev'.op = "reaper"
              \/ ev'.op = "refresh" /\ ev'.status = 200) =>
                \A pair \in stopped : ~(Live(pair[1]) /\ Live(pair[2]))]_vars

C32_CacheCarriesNewAvatar ==
    \A i \in UserIds :
        (users[i].avatar \in AvatarUrls /\ pc[1] \notin {"av_delete", "av_cache"})
            => \A c \in ucache :
                  c.username = users[i].username
                      => c.profile.avatar = users[i].avatar

\* C38: update_avatar_url answers 404 for an e-mail no user has and 403
\* for a user whose role is not admin, and in both cases leaves the user
\* table and the cache as they were; it writes the table only after the
\* role check has seen an admin, changing that user's avatar and nothing
\* else, and it answers 200 with the cache holding the profile with the
\* new avatar.
C38_AvatarOnlyForAdmin ==
    [][/\ ev'.op \in {"avatar_call", "avatar_lookup"} =>
             users' = users /\ ucache' = ucache
       /\ (ev'.op = "avatar" /\ ev'.pre = "absent") =>
             ev'.status = 404 /\ users' = users /\ ucache' = ucache
       /\ (ev'.op = "avatar" /\ ev'.pre = "plain") =>
             ev'.status = 403 /\ users' = users /\ ucache' = ucache
       /\ ev'.op = "avatar_lookup" => ev'.pre = "admin"
       /\ ev'.op = "avatar_write" =>
             /\ ev'.pre = "admin"
             /\ \A i \in UserIds :
                   users'[i] = IF users[i].email = ev'.email
                               THEN [users[i] EXCEPT !.avatar = ev'.avatar]
                               ELSE users[i]
             /\ \E i \in UserIds : users[i].email = ev'.email
       /\ (ev'.op = "avatar" /\ ev'.pre = "admin") =>
             /\ ev'.status = 200
             /\ users' = users
             /\ \E c \in ucache' :
                   /\ c.username = ev'.uname
                   /\ c.profile.email = ev'.email
                   /\ c.profile.avatar = ev'.avatar
             /\ \A c \in ucache' :
                   c.username = ev'.uname => c.profile.avatar = ev'.avatar
             /\ \A c \in ucache' : c.username # ev'.uname => c \in ucache
       /\ (\E i \in UserIds : users'[i].avatar # users[i].avatar) =>
             ev'.op = "avatar_write"]_vars

\* A user whose avatar an earlier call stored, no longer admin, has been
\* refused with 403 while the cache holds a profile.
C38_Witness ==
    /\ ev.op = "avatar" /\ ev.status = 403 /\ ev.pre = "plain"
    /\ ucache # {}
    /\ \E i \in UserIds : users[i].avatar \in AvatarUrls

\* C33: a token minted by create_email_token is never accepted by
\* get_current_user, and a token minted by create_access_token is never
\* accepted by get_email_from_token, whatever the usernames and e-mails.
C33_TokenKindsNotInterchangeable ==
    /\ (ev.op = "me" /\ ev.access \in issued /\ ev.access.iat # NoTime)
          => ev.status = 401
    /\ (ev.op = "confirm" /\ ev.access \in issued /\ ev.access.iat = NoTime)
          => ev.status = 422

\* C34: a logout revokes a refresh token only if that token's row is
\* owned by the user whose username is the sub of the access token the
\* request carries.
C34_LogoutEndsOwnSessionOnly ==
    [][ev'.op = "logout" =>
          \A r \in rows :
              (/\ r.revoked_at = NoTime
               /\ \E q \in rows' : /\ q.token_hash = r.token_hash
                                   /\ q.revoked_at # NoTime)
                  => /\ r.user_id \in UserIds
                     /\ users[r.user_id].username = ev'.access.sub]_vars

\* C35: every create_refresh_token, in a successful login and in a
\* refresh, adds exactly one row, new and active, and leaves every row
\* that was there as it was, so that the user has one more active
\* session than before.
C35_LoginAddsOneSession ==
    [][(\/ ev'.op = "login" /\ ev'.status = 200
        \/ \E p \in Procs : pc[p] = "r_create" /\ pc'[p] = "r_revoke") =>
          \E r \in rows' \ rows :
             LET Live(S) == {q \in S : /\ q.user_id = r.user_id
                                       /\ q.revoked_at = NoTime
                                       /\ q.expired_at > now'}
             IN /\ rows' = rows \cup {r}
                /\ \A q \in rows : q.token_hash # r.token_hash
                /\ r.revoked_at = NoTime /\ r.expired_at > now'
                /\ Cardinality(Live(rows')) = Cardinality(Live(rows)) + 1]_vars

\* A login has just succeeded for a user who now has three active
\* sessions.
C35_Witness ==
    /\ ev.op = "login" /\ ev.status = 200
    /\ Cardinality({q \in rows : /\ users[q.user_id].username = ev.uname
                                 /\ q.revoked_at = NoTime
                                 /\ q.expired_at > now}) = 3

C37_RotationPreservesOwnership ==
    [][(ev'.op = "refresh" /\ ev'.status = 200) =>
          \E old \in rows', new \in rows' :
             /\ old.token_hash = HashToken(ev'.secret)
             /\ new.token_hash = HashToken(ev'.newRefresh)
             /\ new # old
             /\ new.user_id = old.user_id
             /\ old.user_id \in UserIds
             /\ ev'.access.sub = users[old.user_id].username
             /\ ev'.access.sig = "hs"]_vars

\* The second user's session has been rotated while the first user has
\* a session too.
C37_Witness ==
    /\ ev.op = "refresh" /\ ev.status = 200
    /\ \E r \in rows : r.token_hash = HashToken(ev.secret) /\ r.user_id = 2
    /\ \E r \in rows : r.user_id = 1

====
